---- MODULE Spec2Model ----
(***************************************************************************)
(* A model of the graph engine of rasa (src/rasa/engine/graph.py): the     *)
(* GraphSchema data model with its serialisation and pruning, and the      *)
(* GraphNode wrapper that instantiates and runs one GraphComponent.        *)
(*                                                                         *)
(* Python values are modelled as tagged records.  A dict is a function     *)
(* from its keys; where the code iterates over a dict the iteration order  *)
(* is the insertion order, given by NodeOrder (node names) and InputOrder  *)
(* (the keys of `needs`).  A list is a sequence.                           *)
(***************************************************************************)
EXTENDS Integers, Sequences, FiniteSets, TLC

\* ------------------------------------------------------------------ values

\* Python's None.
NoneVal == [tag |-> "None"]

\* rasa.engine.storage.resource.Resource: a dataclass with the field `name`.
Resource(name) == [tag |-> "Resource", name |-> name]

\* The node names of a schema, in the insertion order of GraphSchema.nodes.
NodeOrder == <<"T", "A", "B", "C">>

Names == {NodeOrder[i] : i \in 1..Len(NodeOrder)}

\* The keys of a `needs` dict, in insertion order.
InputOrder == <<"x", "y", "resource">>

\* The empty dict.
EmptyDict == [k \in {} |-> NoneVal]

\* {**a, **b}: the keys of both, b's value where both hold a key.
DictMerge(a, b) ==
    [k \in (DOMAIN a) \cup (DOMAIN b) |-> IF k \in DOMAIN b THEN b[k] ELSE a[k]]

\* The elements of a sequence.
Range(seq) == {seq[i] : i \in 1..Len(seq)}

\* list(d.keys()) of a dict whose keys were inserted in the order `order`.
RECURSIVE KeysIn(_, _)
KeysIn(order, d) ==
    IF order = <<>> THEN <<>>
    ELSE (IF Head(order) \in DOMAIN d THEN <<Head(order)>> ELSE <<>>)
         \o KeysIn(Tail(order), d)

\* list(d.values()), in the insertion order of the keys.
DictValues(order, d) ==
    LET ks == KeysIn(order, d) IN [i \in 1..Len(ks) |-> d[ks[i]]]

\* -------------------------------------------------------- component classes

\* The component classes of the hosting process.  A class object has an
\* identity (id), the module it is defined in (__module__, as the sequence of
\* its dotted segments) and its __name__.  Two classes of different modules
\* share the __name__ "Classifier".
TokenizerCls ==
    [tag |-> "class", id |-> 1, module |-> <<"rasa", "tokenizers">>,
     name |-> "Tokenizer"]

ClassifierCls ==
    [tag |-> "class", id |-> 2, module |-> <<"rasa", "classifiers">>,
     name |-> "Classifier"]

PolicyCls ==
    [tag |-> "class", id |-> 3, module |-> <<"rasa", "policies">>,
     name |-> "Classifier"]

Classes == {TokenizerCls, ClassifierCls, PolicyCls}

\* ------------------------------------------------------------ GraphSchema

\* SchemaNode: the dataclass of one node.
SchemaNode(needs, uses, constructor_name, fn, config, eager, is_target, is_input, resource) ==
    [needs |-> needs, uses |-> uses, constructor_name |-> constructor_name,
     fn |-> fn, config |-> config, eager |-> eager, is_target |-> is_target,
     is_input |-> is_input, resource |-> resource]

\* f"{node.uses.__module__}.{node.uses.__name__}": the dotted path, as the
\* sequence of its segments.
UsesPathNameOnly(cls) == <<cls.name>>

UsesPath(cls) == cls.module \o <<cls.name>>

\* dataclasses.asdict on the resource field: a Resource becomes the dict of
\* its fields, None stays None.
ResourceAsDictKept(resource) == resource

ResourceAsDict(resource) ==
    IF resource = NoneVal THEN NoneVal
    ELSE [tag |-> "dict", name |-> resource.name]

\* One pass of the loop of as_dict: dataclasses.asdict(node), then `uses`
\* replaced by the dotted path of the class.
SerializeNode(node) ==
    [node EXCEPT !.uses = [tag |-> "path", path |-> UsesPath(node.uses)],
                 !.resource = ResourceAsDict(node.resource)]

\* GraphSchema.as_dict.
as_dict(nodes) == [n \in DOMAIN nodes |-> SerializeNode(nodes[n])]

\* rasa.shared.utils.common.class_from_module_path: the path is split at its
\* last dot into module and class name, the module imported and the class
\* looked up in it; ImportError when there is no such class.
class_from_module_path(path) ==
    LET module == SubSeq(path, 1, Len(path) - 1)
        name == path[Len(path)]
        found == {c \in Classes : c.module = module /\ c.name = name}
    IN  IF Len(path) >= 2 /\ found # {}
        THEN CHOOSE c \in found : TRUE
        ELSE [tag |-> "ImportError", path |-> path]

\* Resource(**resource).
ResourceFromDict(d) == Resource(d.name)

\* The KeyError a dict raises for a key it does not hold.
KeyError(key) == [tag |-> "Exception", type |-> "KeyError", msg |-> key]

\* The names of the fields of the SchemaNode dataclass.
SchemaNodeFields ==
    {"needs", "uses", "constructor_name", "fn", "config", "eager",
     "is_target", "is_input", "resource"}

\* The fields of SchemaNode without a default value.
RequiredFields == {"needs", "uses", "constructor_name", "fn", "config"}

\* The default values of the other fields.
FieldDefaults ==
    [eager |-> FALSE, is_target |-> FALSE, is_input |-> FALSE,
     resource |-> NoneVal]

\* The TypeError of a call with an unexpected or a missing argument.
TypeError == [tag |-> "Exception", type |-> "TypeError"]

\* SchemaNode(**kwargs), the __init__ the dataclass generates: a TypeError
\* for a keyword that is no field and for a required field without a value,
\* the default for any other field without a value.
SchemaNodeFromKwargsLenient(kwargs) ==
    [f \in SchemaNodeFields |->
        IF f \in DOMAIN kwargs THEN kwargs[f]
        ELSE IF f \in DOMAIN FieldDefaults THEN FieldDefaults[f] ELSE NoneVal]

SchemaNodeFromKwargs(kwargs) ==
    IF /\ DOMAIN kwargs \subseteq SchemaNodeFields
       /\ RequiredFields \subseteq DOMAIN kwargs
    THEN DictMerge(FieldDefaults, kwargs)
    ELSE TypeError

\* The loop of from_dict over the items that remain (keys), with the nodes
\* built so far and the serialized mapping as mutated so far.  The result is
\* the GraphSchema, the GraphSchemaException naming the path, or the KeyError
\* or TypeError that leaves the loop; the mapping passed in is updated in
\* place on the way.
RECURSIVE from_dict_loop(_, _, _)
from_dict_loop(ser, keys, nodes) ==
    IF keys = <<>>
    THEN [result |-> [tag |-> "GraphSchema", nodes |-> nodes], ser |-> ser]
    ELSE LET node_name == Head(keys)
             serialized_node == ser[node_name]
         IN  IF "uses" \notin DOMAIN serialized_node
             THEN [result |-> KeyError("uses"), ser |-> ser]
             ELSE
             LET cls == class_from_module_path(serialized_node.uses.path)
             IN  IF cls.tag = "ImportError"
                 THEN [result |-> [tag |-> "GraphSchemaException",
                                   path |-> serialized_node.uses.path],
                       ser |-> ser]
                 ELSE
                 LET with_uses == [serialized_node EXCEPT !.uses = cls]
                 IN  IF "resource" \notin DOMAIN with_uses
                     THEN [result |-> KeyError("resource"),
                           ser |-> [ser EXCEPT ![node_name] = with_uses]]
                     ELSE
                     LET resource == with_uses.resource
                         kwargs ==
                             [with_uses EXCEPT
                                 !.resource = IF resource # NoneVal
                                              THEN ResourceFromDict(resource)
                                              ELSE resource]
                         mutated == [ser EXCEPT ![node_name] = kwargs]
                         loaded_node == SchemaNodeFromKwargs(kwargs)
                     IN  IF loaded_node = TypeError
                         THEN [result |-> loaded_node, ser |-> mutated]
                         ELSE from_dict_loop(
                                  mutated, Tail(keys),
                                  [n \in (DOMAIN nodes) \cup {node_name} |->
                                     IF n = node_name THEN loaded_node
                                     ELSE nodes[n]])

\* GraphSchema.from_dict.
from_dict_skipping(ser) ==
    from_dict_loop(ser,
                   SelectSeq(KeysIn(NodeOrder, ser),
                             LAMBDA n : class_from_module_path(
                                            ser[n].uses.path).tag = "class"),
                   EmptyDict)

from_dict(ser) == from_dict_loop(ser, KeysIn(NodeOrder, ser), EmptyDict)

\* GraphSchema.target_names.
target_names_all(nodes) == KeysIn(NodeOrder, nodes)

target_names(nodes) ==
    SelectSeq(KeysIn(NodeOrder, nodes), LAMBDA n : nodes[n].is_target)

\* GraphSchema._all_dependencies_schema: the list `required`, with a name
\* once for every path that leads to it.
RECURSIVE all_dependencies_schema(_, _)
RECURSIVE dependencies_loop(_, _)
dependencies_loop_direct(nodes, target_dependencies) == target_dependencies

dependencies_loop_first(nodes, target_dependencies) ==
    IF target_dependencies = <<>> THEN <<>>
    ELSE all_dependencies_schema(nodes, <<Head(target_dependencies)>>)

dependencies_loop(nodes, target_dependencies) ==
    IF target_dependencies = <<>> THEN <<>>
    ELSE all_dependencies_schema(nodes, <<Head(target_dependencies)>>)
         \o dependencies_loop(nodes, Tail(target_dependencies))

all_dependencies_schema(nodes, targets) ==
    IF targets = <<>> THEN <<>>
    ELSE LET target == Head(targets)
             target_dependencies == DictValues(InputOrder, nodes[target].needs)
         IN  <<target>>
             \o dependencies_loop(nodes, target_dependencies)
             \o all_dependencies_schema(nodes, Tail(targets))

\* The items the dict comprehension of minimal_graph_schema yields, in order.
minimal_graph_schema_items_no_targets(nodes) ==
    LET dependencies == all_dependencies_schema(nodes, target_names(nodes))
    IN  SelectSeq(KeysIn(NodeOrder, nodes),
                  LAMBDA node_name : /\ node_name \in Range(dependencies)
                                     /\ ~nodes[node_name].is_target)

minimal_graph_schema_items(nodes) ==
    LET dependencies == all_dependencies_schema(nodes, target_names(nodes))
    IN  SelectSeq(KeysIn(NodeOrder, nodes),
                  LAMBDA node_name : node_name \in Range(dependencies))

\* GraphSchema.minimal_graph_schema: the nodes of the new schema.
minimal_graph_schema(nodes) ==
    [n \in Range(minimal_graph_schema_items(nodes)) |-> nodes[n]]

\* ----------------------------------------------------- component contract

\* The parameters the four-argument contract of create and load fixes.
ContractParams == {"config", "model_storage", "resource", "execution_context"}

\* arguments_of(constructor): the parameter names of the constructor's
\* signature.  create takes the four contract parameters; GraphComponent.load
\* adds **kwargs; ClassifierCls overrides load and declares the input x.
ConstructorParams(cls, constructor_name) ==
    IF constructor_name = "create" THEN ContractParams
    ELSE IF cls = ClassifierCls THEN ContractParams \cup {"x"}
    ELSE ContractParams \cup {"kwargs"}

\* GraphComponent.get_default_config, as the classes override it.
get_default_config(cls) ==
    IF cls = ClassifierCls THEN [epochs |-> 1, flag |-> 0]
    ELSE IF cls = PolicyCls THEN [flag |-> 0]
    ELSE EmptyDict

\* rasa.shared.utils.common.minimal_kwargs: the entries of kwargs whose key
\* is a parameter of the function.
minimal_kwargs(kwargs, params) ==
    [k \in (DOMAIN kwargs) \cap params |-> kwargs[k]]

\* The exceptions a component or a hook may raise.
Errors ==
    {[tag |-> "Exception", type |-> "ValueError", msg |-> "boom"],
     [tag |-> "Exception", type |-> "KeyError", msg |-> "missing"]}

\* GraphComponentException(message) from cause; the message names the node.
GraphComponentException(what, node_name, cause) ==
    [tag |-> "GraphComponentException", what |-> what, node |-> node_name,
     cause |-> cause]

\* The value the designated function returns in invocation inv of a node.
Output(node_name, inv) == [tag |-> "output", by |-> node_name, inv |-> inv]

\* The hooks registered with every node, in registration order.
NumHooks == 2

Hooks == [i \in 1..NumHooks |-> i]

\* What on_before_node of a hook returns in invocation inv of a node.
HookData(hook, node_name, inv) ==
    [tag |-> "hook_data", hook |-> hook, node |-> node_name, inv |-> inv]

\* ------------------------------------------------------------------- state

VARIABLES
    schema,      \* GraphSchema.nodes of the schema at hand
    schOp,       \* the schema operation applied last
    serialized,  \* the mapping as_dict returned, as from_dict left it
    loaded,      \* what from_dict returned or raised
    minimal,     \* the nodes of the schema minimal_graph_schema returned
    gnodes,      \* node name -> the GraphNode built for it
    pc,          \* where the invocation in progress stands
    frame,       \* the local variables of the invocation in progress
    trace,       \* the calls made so far: constructors, hooks, functions
    outputs,     \* node name -> the output its invocation returned
    raised,      \* the exception the last operation raised, or None
    result,      \* what the run returned: target name -> output, or None
    stack,       \* the frames of _all_dependencies_schema under way
    suspended,   \* the invocations under way that are not running now
    context,     \* the ExecutionContext of the run
    direct       \* a function called outside a graph: arguments and outcome

vars == <<schema, schOp, serialized, loaded, minimal, gnodes, pc, frame,
          trace, outputs, raised, result, stack, suspended, context, direct>>

schemaVars == <<schema, schOp, serialized, loaded, minimal, stack>>

nodeVars ==
    <<gnodes, pc, frame, trace, outputs, raised, result, suspended, context>>

\* --------------------------------------------------------------- GraphNode

\* {**self._component_class.get_default_config(), **component_config}.
MergedConfigDefaultsWin(default_config, component_config) ==
    DictMerge(component_config, default_config)

MergedConfig(default_config, component_config) ==
    DictMerge(default_config, component_config)

\* GraphNode.from_schema_node and the assignments of GraphNode.__init__.
GraphNodeInit(node_name, schema_node) ==
    [node_name |-> node_name,
     component_class |-> schema_node.uses,
     constructor_name |-> schema_node.constructor_name,
     component_config |-> MergedConfig(get_default_config(schema_node.uses),
                                       schema_node.config),
     fn_name |-> schema_node.fn,
     inputs |-> schema_node.needs,
     eager |-> schema_node.eager,
     existing_resource |-> schema_node.resource,
     execution_context |-> context,
     component |-> NoneVal]

\* GraphNode._get_resource: the resource, and kwargs after the pop.
get_resource_static_first(gn, kwargs) ==
    IF gn.existing_resource # NoneVal
    THEN [resource |-> gn.existing_resource, kwargs |-> kwargs]
    ELSE IF "resource" \in DOMAIN kwargs
    THEN [resource |-> kwargs["resource"],
          kwargs |-> [k \in (DOMAIN kwargs) \ {"resource"} |-> kwargs[k]]]
    ELSE [resource |-> Resource(gn.node_name), kwargs |-> kwargs]

get_resource_never_static(gn, kwargs) ==
    IF "resource" \in DOMAIN kwargs
    THEN [resource |-> kwargs["resource"],
          kwargs |-> [k \in (DOMAIN kwargs) \ {"resource"} |-> kwargs[k]]]
    ELSE [resource |-> Resource(gn.node_name), kwargs |-> kwargs]

get_resource_class_named(gn, kwargs) ==
    IF "resource" \in DOMAIN kwargs
    THEN [resource |-> kwargs["resource"],
          kwargs |-> [k \in (DOMAIN kwargs) \ {"resource"} |-> kwargs[k]]]
    ELSE IF gn.existing_resource # NoneVal
    THEN [resource |-> gn.existing_resource, kwargs |-> kwargs]
    ELSE [resource |-> Resource(gn.component_class.name), kwargs |-> kwargs]

get_resource(gn, kwargs) ==
    IF "resource" \in DOMAIN kwargs
    THEN [resource |-> kwargs["resource"],
          kwargs |-> [k \in (DOMAIN kwargs) \ {"resource"} |-> kwargs[k]]]
    ELSE IF gn.existing_resource # NoneVal
    THEN [resource |-> gn.existing_resource, kwargs |-> kwargs]
    ELSE [resource |-> Resource(gn.node_name), kwargs |-> kwargs]

\* execution_context=self._execution_context: the context a GraphNode hands
\* to the constructor and to its hooks.
ContextPassedRebuilt(gn) ==
    [tag |-> "ExecutionContext",
     graph_schema |-> gn.execution_context.graph_schema,
     model_id |-> NoneVal, should_add_diagnostic_data |-> FALSE,
     is_finetuning |-> FALSE]

ContextPassed(gn) == gn.execution_context

\* The component the constructor call of _load_component builds: the
\* arguments it was given, and serial, which call of the node's constructor
\* built it.
NewComponent(gn, kwargs, serial) ==
    LET r == get_resource(gn, kwargs)
    IN  [tag |-> "component", cls |-> gn.component_class,
         constructor |-> gn.constructor_name, config |-> gn.component_config,
         resource |-> r.resource, execution_context |-> ContextPassed(gn),
         kwargs |-> r.kwargs, serial |-> serial]

\* -------------------------------------------------------- schemas at hand

\* The `needs` dicts of the schemas under test: no input, one input x, or
\* the inputs x and y, each from any node.
NeedsChoices ==
    UNION {[D -> Names] : D \in {{}, {"x"}, {"x", "y"}}}

\* The nodes that node n needs (the values of its needs).
Parents(nodes, n) == {nodes[n].needs[k] : k \in DOMAIN nodes[n].needs}

\* The nodes reachable from the set S by following needs values, S included.
RECURSIVE ReachableFrom(_, _)
ReachableFrom(nodes, S) ==
    LET next == S \cup UNION {Parents(nodes, n) : n \in S}
    IN  IF next = S THEN S ELSE ReachableFrom(nodes, next)

\* No node (transitively) needs itself.
Acyclic(nodes) ==
    \A n \in DOMAIN nodes : n \notin ReachableFrom(nodes, Parents(nodes, n))

\* The name of the resource a trained node of that name was persisted under.
StoredName(n) ==
    CASE n = "T" -> "stored_T" [] n = "A" -> "stored_A"
      [] n = "B" -> "stored_B" [] OTHER -> "stored_C"

\* The fields, other than needs and is_target, of the nodes of a training
\* schema (created lazily, nothing stored) and of an inference schema (loaded
\* eagerly from the resource stored in training).
TrainingFields ==
    [n \in Names |->
        [uses |-> CASE n = "T" -> PolicyCls [] n = "A" -> ClassifierCls
                    [] OTHER -> TokenizerCls,
         constructor_name |-> "create", fn |-> "train",
         config |-> IF n = "A" THEN [epochs |-> 5] ELSE EmptyDict,
         eager |-> FALSE, is_input |-> (n = "C"), resource |-> NoneVal]]

InferenceFields ==
    [n \in Names |->
        [uses |-> CASE n = "T" -> PolicyCls [] n = "A" -> ClassifierCls
                    [] OTHER -> TokenizerCls,
         constructor_name |-> "load", fn |-> "process",
         config |-> IF n = "A" THEN [epochs |-> 5, extra |-> 7] ELSE EmptyDict,
         eager |-> (n # "B"), is_input |-> (n = "C"),
         resource |-> IF n = "C" THEN NoneVal ELSE Resource(StoredName(n))]]

FieldProfiles == {TrainingFields, InferenceFields}

\* The schema with the given needs, targets and other fields.
MakeSchema(needs, targets, fields) ==
    [n \in DOMAIN needs |->
        SchemaNode(needs[n], fields[n].uses, fields[n].constructor_name,
                   fields[n].fn, fields[n].config, fields[n].eager,
                   n \in targets, fields[n].is_input, fields[n].resource)]

\* Nothing of a GraphNode exists while schemas are serialised and pruned.
NodeIdle ==
    /\ gnodes = EmptyDict
    /\ pc = [at |-> "off"]
    /\ frame = NoneVal
    /\ trace = <<>>
    /\ outputs = EmptyDict
    /\ raised = NoneVal
    /\ result = NoneVal
    /\ suspended = {}
    /\ context = NoneVal
    /\ direct = NoneVal

\* Any acyclic schema over the node names, of either profile.
InitSchema ==
    /\ \E needs \in [Names -> NeedsChoices] :
         /\ Acyclic([n \in Names |-> [needs |-> needs[n]]])
         /\ \E targets \in SUBSET Names, fields \in FieldProfiles :
              schema = MakeSchema(needs, targets, fields)
    /\ schOp = "new"
    /\ serialized = NoneVal
    /\ loaded = NoneVal
    /\ minimal = NoneVal
    /\ stack = <<>>
    /\ NodeIdle

\* serialized = schema.as_dict()
AsDict ==
    /\ schOp = "new"
    /\ serialized' = as_dict(schema)
    /\ schOp' = "as_dict"
    /\ UNCHANGED <<schema, loaded, minimal>>
    /\ UNCHANGED nodeVars
    /\ UNCHANGED direct
    /\ UNCHANGED stack

\* loaded = GraphSchema.from_dict(serialized), which updates serialized.
FromDict ==
    /\ schOp \in {"as_dict", "edited"}
    /\ LET r == from_dict(serialized)
       IN  /\ loaded' = r.result
           /\ serialized' = r.ser
    /\ schOp' = "from_dict"
    /\ UNCHANGED <<schema, minimal>>
    /\ UNCHANGED nodeVars
    /\ UNCHANGED direct
    /\ UNCHANGED stack

\* minimal = schema.minimal_graph_schema()
MinimalInPlace ==
    /\ schOp = "new"
    /\ schema' = minimal_graph_schema(schema)
    /\ minimal' = schema'
    /\ schOp' = "minimal"
    /\ UNCHANGED <<serialized, loaded>>
    /\ UNCHANGED nodeVars
    /\ UNCHANGED direct
    /\ UNCHANGED stack

Minimal ==
    /\ schOp = "new"
    /\ minimal' = minimal_graph_schema(schema)
    /\ schOp' = "minimal"
    /\ UNCHANGED <<schema, serialized, loaded>>
    /\ UNCHANGED nodeVars
    /\ UNCHANGED direct
    /\ UNCHANGED stack

\* minimal = GraphSchema(minimal).minimal_graph_schema(): the schema that
\* minimal_graph_schema returned is pruned again.
MinimalAgain ==
    /\ schOp = "minimal"
    /\ minimal' = minimal_graph_schema(minimal)
    /\ schOp' = "minimal_twice"
    /\ UNCHANGED <<schema, serialized, loaded>>
    /\ UNCHANGED nodeVars
    /\ UNCHANGED direct
    /\ UNCHANGED stack

NextSchema == AsDict \/ FromDict \/ Minimal \/ MinimalAgain

SpecSchema == InitSchema /\ [][NextSchema]_vars

\* The needs of a diamond (T needs A and B, both need C: B takes the output
\* of C as its `resource` and as x) and of a chain beside which B hangs off C
\* without being needed by the target.
DiamondNeeds ==
    [n \in Names |->
        CASE n = "T" -> [x |-> "A", y |-> "B"]
          [] n = "A" -> [x |-> "C"]
          [] n = "B" -> [resource |-> "C", x |-> "C"]
          [] OTHER -> EmptyDict]

ChainNeeds ==
    [n \in Names |->
        CASE n = "T" -> [x |-> "A", y |-> "C"]
          [] n = "A" -> [resource |-> "C"]
          [] n = "B" -> [y |-> "C"]
          [] OTHER -> EmptyDict]

\* ------------------------------------- the dependency walk, call by call

\* The number of frames of _all_dependencies_schema the interpreter allows
\* on the call stack before it raises RecursionError.
RecursionLimit == 6

\* RecursionError: maximum recursion depth exceeded.
RecursionError == [tag |-> "Exception", type |-> "RecursionError"]

\* A frame of _all_dependencies_schema(targets): the targets the outer loop
\* has not finished (the first is the one at hand), the dependencies of the
\* target at hand the inner loop has not finished, the list `required`, and
\* at, whether the outer or the inner loop is to take its next item.
WalkFrame(targets, dependencies, required, at) ==
    [targets |-> targets, dependencies |-> dependencies,
     required |-> required, at |-> at]

\* The frame at the top of the stack, and the stack with it replaced.
Top == stack[Len(stack)]

WithTop(f) == [stack EXCEPT ![Len(stack)] = f]

\* minimal_graph_schema calls self._all_dependencies_schema(target_names).
WalkCall ==
    /\ schOp = "new"
    /\ stack' = <<WalkFrame(target_names(schema), <<>>, <<>>, "target")>>
    /\ schOp' = "walk"
    /\ UNCHANGED <<schema, serialized, loaded, minimal>>
    /\ UNCHANGED nodeVars
    /\ UNCHANGED direct

\* `for target in targets` takes a target: required.append(target), and
\* target_dependencies = self.nodes[target].needs.values().
WalkTarget ==
    /\ schOp = "walk"
    /\ Top.at = "target"
    /\ Top.targets # <<>>
    /\ LET target == Head(Top.targets)
       IN  stack' = WithTop(WalkFrame(Top.targets,
                                      DictValues(InputOrder,
                                                 schema[target].needs),
                                      Append(Top.required, target),
                                      "dependency"))
    /\ UNCHANGED <<schema, schOp, serialized, loaded, minimal>>
    /\ UNCHANGED nodeVars
    /\ UNCHANGED direct

\* `for dependency in target_dependencies` takes a dependency: the call
\* self._all_dependencies_schema([dependency]) gets its frame.
WalkRecurse ==
    /\ schOp = "walk"
    /\ Top.at = "dependency"
    /\ Top.dependencies # <<>>
    /\ Len(stack) < RecursionLimit
    /\ stack' = Append(stack, WalkFrame(<<Head(Top.dependencies)>>, <<>>,
                                        <<>>, "target"))
    /\ UNCHANGED <<schema, schOp, serialized, loaded, minimal>>
    /\ UNCHANGED nodeVars
    /\ UNCHANGED direct

\* The same call with the call stack full: RecursionError, which neither
\* _all_dependencies_schema nor minimal_graph_schema catches.
WalkOverflow ==
    /\ schOp = "walk"
    /\ Top.at = "dependency"
    /\ Top.dependencies # <<>>
    /\ Len(stack) >= RecursionLimit
    /\ stack' = <<>>
    /\ minimal' = RecursionError
    /\ schOp' = "minimal_raised"
    /\ UNCHANGED <<schema, serialized, loaded>>
    /\ UNCHANGED nodeVars
    /\ UNCHANGED direct

\* The inner loop is through: the outer loop goes on to the next target.
WalkNextTarget ==
    /\ schOp = "walk"
    /\ Top.at = "dependency"
    /\ Top.dependencies = <<>>
    /\ stack' = WithTop(WalkFrame(Tail(Top.targets), <<>>, Top.required,
                                  "target"))
    /\ UNCHANGED <<schema, schOp, serialized, loaded, minimal>>
    /\ UNCHANGED nodeVars
    /\ UNCHANGED direct

\* `return required` of a nested call: the caller does required += it and
\* its inner loop goes on.
WalkReturn ==
    /\ schOp = "walk"
    /\ Top.at = "target"
    /\ Top.targets = <<>>
    /\ Len(stack) > 1
    /\ LET caller == stack[Len(stack) - 1]
       IN  stack' = Append(SubSeq(stack, 1, Len(stack) - 2),
                           WalkFrame(caller.targets,
                                     Tail(caller.dependencies),
                                     caller.required \o Top.required,
                                     "dependency"))
    /\ UNCHANGED <<schema, schOp, serialized, loaded, minimal>>
    /\ UNCHANGED nodeVars
    /\ UNCHANGED direct

\* `return required` of the outermost call: minimal_graph_schema builds the
\* new schema of the nodes named in it.
WalkDone ==
    /\ schOp = "walk"
    /\ Top.at = "target"
    /\ Top.targets = <<>>
    /\ Len(stack) = 1
    /\ minimal' = [n \in {m \in DOMAIN schema : m \in Range(Top.required)} |->
                      schema[n]]
    /\ stack' = <<>>
    /\ schOp' = "minimal"
    /\ UNCHANGED <<schema, serialized, loaded>>
    /\ UNCHANGED nodeVars
    /\ UNCHANGED direct

\* The needs of the schemas walked: T has no input, x or x and y, the other
\* nodes no input or x, from any node, itself included.
WalkNeeds ==
    {needs \in [Names -> NeedsChoices] :
        \A n \in Names \ {"T"} : DOMAIN needs[n] \subseteq {"x"}}

\* Any such schema, cyclic or not, with the target T or the targets T and A.
InitWalk ==
    /\ \E needs \in WalkNeeds, targets \in {{"T"}, {"T", "A"}} :
         schema = MakeSchema(needs, targets, TrainingFields)
    /\ schOp = "new"
    /\ serialized = NoneVal
    /\ loaded = NoneVal
    /\ minimal = NoneVal
    /\ stack = <<>>
    /\ NodeIdle

NextWalk ==
    \/ WalkCall \/ WalkTarget \/ WalkRecurse \/ WalkOverflow
    \/ WalkNextTarget \/ WalkReturn \/ WalkDone

SpecWalk == InitWalk /\ [][NextWalk]_vars

\* ------------------------------------------- serialized schemas that load

\* Dotted paths that name no class of the process: of a module that does not
\* exist, and of a name that an existing module does not define.
BadPaths ==
    {<<"not", "a", "real", "module", "Foo">>, <<"rasa", "tokenizers", "Missing">>}

\* The number of nodes of a serialized schema whose path names no class.
MaxBad == 2

\* The nodes of a serialized mapping whose path is one of BadPaths.
EditedNodes(ser) ==
    {n \in DOMAIN ser : ser[n].uses.tag = "path" /\ ser[n].uses.path \in BadPaths}

\* The serialized schema at hand was written with a class at node n that
\* the process does not have: its `uses` is the given path.
EditUses(n, path) ==
    /\ schOp \in {"as_dict", "edited"}
    /\ n \in DOMAIN serialized
    /\ n \notin EditedNodes(serialized)
    /\ Cardinality(EditedNodes(serialized)) < MaxBad
    /\ serialized' = [serialized EXCEPT ![n].uses.path = path]
    /\ schOp' = "edited"
    /\ UNCHANGED <<schema, loaded, minimal>>
    /\ UNCHANGED nodeVars
    /\ UNCHANGED direct
    /\ UNCHANGED stack

\* The schemas of a diamond and of a chain, of either profile.
InitLoad ==
    /\ \E needs \in {DiamondNeeds, ChainNeeds}, targets \in {{"T"}, {"T", "B"}},
          fields \in FieldProfiles :
         schema = MakeSchema(needs, targets, fields)
    /\ schOp = "new"
    /\ serialized = NoneVal
    /\ loaded = NoneVal
    /\ minimal = NoneVal
    /\ stack = <<>>
    /\ NodeIdle

NextLoad ==
    \/ AsDict
    \/ \E n \in Names, path \in BadPaths : EditUses(n, path)
    \/ FromDict

SpecLoad == InitLoad /\ [][NextLoad]_vars

\* ------------------------------------------- serialized schemas, keys edited

\* A key that is no field of SchemaNode.
UnknownKeys == {"priority"}

\* The number of keys dropped from or added to a serialized schema.
MaxKeyEdits == 2

\* The keys the nodes of a serialized mapping lack or have in excess.
KeyEdits(ser) ==
    {e \in (DOMAIN ser) \X (SchemaNodeFields \cup UnknownKeys) :
        (e[2] \in DOMAIN ser[e[1]]) # (e[2] \in SchemaNodeFields)}

\* The serialized schema at hand was written without the key k of node n.
DropKey(n, k) ==
    /\ schOp \in {"as_dict", "edited"}
    /\ n \in DOMAIN serialized
    /\ k \in DOMAIN serialized[n]
    /\ Cardinality(KeyEdits(serialized)) < MaxKeyEdits
    /\ serialized' =
           [serialized EXCEPT
               ![n] = [f \in (DOMAIN serialized[n]) \ {k} |-> serialized[n][f]]]
    /\ schOp' = "edited"
    /\ UNCHANGED <<schema, loaded, minimal>>
    /\ UNCHANGED nodeVars
    /\ UNCHANGED direct
    /\ UNCHANGED stack

\* The serialized schema at hand was written with a key k at node n that
\* SchemaNode does not have.
AddKey(n, k) ==
    /\ schOp \in {"as_dict", "edited"}
    /\ n \in DOMAIN serialized
    /\ k \notin DOMAIN serialized[n]
    /\ Cardinality(KeyEdits(serialized)) < MaxKeyEdits
    /\ serialized' =
           [serialized EXCEPT ![n] = DictMerge(@, [f \in {k} |-> 1])]
    /\ schOp' = "edited"
    /\ UNCHANGED <<schema, loaded, minimal>>
    /\ UNCHANGED nodeVars
    /\ UNCHANGED direct
    /\ UNCHANGED stack

NextKeys ==
    \/ AsDict
    \/ \E n \in Names, k \in SchemaNodeFields : DropKey(n, k)
    \/ \E n \in Names, k \in UnknownKeys : AddKey(n, k)
    \/ FromDict

SpecKeys == InitLoad /\ [][NextKeys]_vars

\* ------------------------------------------------------ graphs that run

\* The fields of the nodes of a graph that runs: the nodes of `eagers` are
\* eager, the nodes of `stored` carry the resource they were persisted under.
\* T is a classifier built by its own load, which declares the input x.
RunFields(eagers, stored) ==
    [n \in Names |->
        [uses |-> CASE n = "T" -> ClassifierCls [] n = "A" -> PolicyCls
                    [] OTHER -> TokenizerCls,
         constructor_name |-> IF n = "T" \/ n \in stored THEN "load"
                              ELSE "create",
         fn |-> "process",
         config |-> IF n = "T" THEN [epochs |-> 5, extra |-> 7] ELSE EmptyDict,
         eager |-> n \in eagers, is_input |-> FALSE,
         resource |-> IF n \in stored THEN Resource(StoredName(n))
                      ELSE NoneVal]]

RunTargets == {{"T"}, {"T", "B"}}

RunSchemas ==
    UNION {{MakeSchema(needs, targets, RunFields(eagers, stored)) :
               needs \in {DiamondNeeds, ChainNeeds},
               eagers \in SUBSET Names,
               stored \in {{}, Names}} : targets \in RunTargets}

\* No schema operation is under way while a graph runs.
SchemaIdle ==
    /\ schOp = "run"
    /\ serialized = NoneVal
    /\ loaded = NoneVal
    /\ minimal = NoneVal
    /\ stack = <<>>

\* ExecutionContext: the dataclass of the information about one run.
ExecutionContext(graph_schema, model_id, should_add_diagnostic_data, is_finetuning) ==
    [tag |-> "ExecutionContext", graph_schema |-> graph_schema,
     model_id |-> model_id,
     should_add_diagnostic_data |-> should_add_diagnostic_data,
     is_finetuning |-> is_finetuning]

\* The contexts of the runs of a schema: of a first training, with the
\* defaults of the dataclass, and of the fine-tuning of a model.
Contexts(nodes) ==
    {ExecutionContext(nodes, NoneVal, FALSE, FALSE),
     ExecutionContext(nodes, [tag |-> "str", value |-> "model_1"], TRUE, TRUE)}

\* ------------------------------------------------- GraphNode, step by step

\* Where an invocation stands: at (the statement of __call__ to run next),
\* the node, inv (the how-manieth invocation of the node this is) and i (the
\* index of the next hook, or of the next node to build).
At(at, node, inv, i) == [at |-> at, node |-> node, inv |-> inv, i |-> i]

\* The local variables of __call__.
Frame(kwargs, input_hook_outputs, run_kwargs, output) ==
    [kwargs |-> kwargs, input_hook_outputs |-> input_hook_outputs,
     run_kwargs |-> run_kwargs, output |-> output]

\* The invocations of the trace, and the constructor calls.
Calls == {i \in DOMAIN trace : trace[i].ev = "call"}

Constructs == {i \in DOMAIN trace : trace[i].ev = "construct"}

\* How often node n has been invoked, and how often its constructor called.
CallCount(n) == Cardinality({i \in Calls : trace[i].node = n})

ConstructCount(n) == Cardinality({i \in Constructs : trace[i].node = n})

\* `if self._eager:` of __init__: the component is built at construction.
LoadsAtInitNever(gn) == FALSE

LoadsAtInit(gn) == gn.eager

\* `if not self._eager:` of __call__: the component is built in the call.
LoadsInCallAlways(gn) == TRUE

LoadsInCall(gn) == ~gn.eager

\* `for hook in self._hooks`: the hook the i-th pass of the loop runs.
HookAtReversed(i) == Hooks[NumHooks + 1 - i]

HookAt(i) == Hooks[i]

\* GraphNode.parent_node_names: list(self._inputs.values()).
parent_node_names_first(gn) ==
    LET values == DictValues(InputOrder, gn.inputs)
    IN  IF values = <<>> THEN <<>> ELSE <<Head(values)>>

parent_node_names(gn) == DictValues(InputOrder, gn.inputs)

\* The projection of __call__: kwargs[input_name] = received[input_node].
ProjectInputsStale(inputs, received_inputs) ==
    LET values == DictValues(InputOrder, inputs)
    IN  [input_name \in DOMAIN inputs |-> received_inputs[values[Len(values)]]]

ProjectInputsByCompletion(inputs, received_inputs) ==
    LET names == KeysIn(InputOrder, inputs)
        done == SelectSeq(trace, LAMBDA e : /\ e.ev = "return"
                                            /\ e.node \in DOMAIN received_inputs)
    IN  [input_name \in DOMAIN inputs |->
            LET i == CHOOSE j \in 1..Len(names) : names[j] = input_name
            IN  done[IF i <= Len(done) THEN i ELSE Len(done)].output]

ProjectInputs(inputs, received_inputs) ==
    [input_name \in DOMAIN inputs |-> received_inputs[inputs[input_name]]]

\* The input names the loop of the projection has passed when it comes to
\* the first parent that received_inputs does not hold (all, if it holds
\* every parent).
RECURSIVE ProjectedBeforeMissing(_, _, _)
ProjectedBeforeMissing(names, inputs, received_inputs) ==
    IF names = <<>> \/ inputs[Head(names)] \notin DOMAIN received_inputs
    THEN {}
    ELSE {Head(names)}
         \cup ProjectedBeforeMissing(Tail(names), inputs, received_inputs)

\* The parents of the node that received_inputs does not hold, in the order
\* the loop of the projection comes to them.
MissingInputsNone(inputs, received_inputs) == <<>>

MissingInputs(inputs, received_inputs) ==
    SelectSeq(DictValues(InputOrder, inputs),
              LAMBDA p : p \notin DOMAIN received_inputs)

\* run_kwargs = kwargs, of a node whose component was built with the node.
EagerRunKwargsNoResource(kwargs) ==
    [k \in (DOMAIN kwargs) \ {"resource"} |-> kwargs[k]]

EagerRunKwargs(kwargs) == kwargs

\* run_kwargs of a lazy node: what the constructor did not take.
RunKwargsAll(kwargs, constructor_kwargs) == kwargs

RunKwargs(kwargs, constructor_kwargs) ==
    [k \in (DOMAIN kwargs) \ (DOMAIN constructor_kwargs) |-> kwargs[k]]

\* The errors __call__ and _load_component raise, each from its cause.
InitializingErrorNoCause(node_name, e) ==
    GraphComponentException("initializing", node_name, NoneVal)

InitializingError(node_name, e) ==
    GraphComponentException("initializing", node_name, e)

RunningErrorNoCause(node_name, e) ==
    GraphComponentException("running", node_name, NoneVal)

RunningError(node_name, e) ==
    GraphComponentException("running", node_name, e)

BeforeHookErrorUnnamed(node_name, e) ==
    GraphComponentException("before hook", "", e)

BeforeHookError(node_name, e) ==
    GraphComponentException("before hook", node_name, e)

AfterHookErrorNoCause(node_name, e) ==
    GraphComponentException("after hook", node_name, NoneVal)

AfterHookError(node_name, e) ==
    GraphComponentException("after hook", node_name, e)

\* The nodes of the schema in the order the GraphNodes are built.
BuildOrder == KeysIn(NodeOrder, schema)

\* Where to go once node i of the build order is built.
AfterBuild(i) ==
    IF i < Len(BuildOrder) THEN At("build", "", 0, i + 1)
    ELSE At("idle", "", 0, 0)

\* GraphNode.__init__ of a node that is not eager: no component yet.
BuildLazy ==
    /\ pc.at = "build"
    /\ LET n == BuildOrder[pc.i]
           gn == GraphNodeInit(n, schema[n])
       IN  /\ ~LoadsAtInit(gn)
           /\ gnodes' = [m \in (DOMAIN gnodes) \cup {n} |->
                            IF m = n THEN gn ELSE gnodes[m]]
           /\ pc' = AfterBuild(pc.i)
    /\ UNCHANGED <<frame, trace, outputs, raised>>
    /\ UNCHANGED schemaVars
    /\ UNCHANGED direct
    /\ UNCHANGED <<result, suspended, context>>

\* GraphNode.__init__ of an eager node: _load_component() without kwargs.
BuildEager ==
    /\ pc.at = "build"
    /\ LET n == BuildOrder[pc.i]
           gn == GraphNodeInit(n, schema[n])
           component == NewComponent(gn, EmptyDict, ConstructCount(n) + 1)
       IN  /\ LoadsAtInit(gn)
           /\ gnodes' = [m \in (DOMAIN gnodes) \cup {n} |->
                            IF m = n THEN [gn EXCEPT !.component = component]
                            ELSE gnodes[m]]
           /\ trace' = Append(trace, [ev |-> "construct", node |-> n,
                                      inv |-> 0, ok |-> TRUE,
                                      component |-> component,
                                      given |-> EmptyDict])
           /\ pc' = AfterBuild(pc.i)
    /\ UNCHANGED <<frame, outputs, raised>>
    /\ UNCHANGED schemaVars
    /\ UNCHANGED direct
    /\ UNCHANGED <<result, suspended, context>>

\* GraphNode.__init__ of an eager node whose constructor raises e: the
\* GraphComponentException leaves __init__, no GraphNode comes to exist.
BuildEagerRaises ==
    /\ pc.at = "build"
    /\ LET n == BuildOrder[pc.i]
           gn == GraphNodeInit(n, schema[n])
           component == NewComponent(gn, EmptyDict, ConstructCount(n) + 1)
       IN  /\ LoadsAtInit(gn)
           /\ \E e \in Errors :
                /\ trace' = Append(trace, [ev |-> "construct", node |-> n,
                                           inv |-> 0, ok |-> FALSE,
                                           component |-> component,
                                           given |-> EmptyDict, exc |-> e])
                /\ raised' = InitializingError(n, e)
           /\ pc' = At("raised", n, 0, 0)
    /\ UNCHANGED <<gnodes, frame, outputs>>
    /\ UNCHANGED schemaVars
    /\ UNCHANGED direct
    /\ UNCHANGED <<result, suspended, context>>

\* zip(self._hooks, input_hook_outputs): the hook data the i-th pass of the
\* loop of _run_after_hooks pairs with the i-th hook.
ZipHookDataLast(input_hook_outputs, i) ==
    input_hook_outputs[Len(input_hook_outputs)]

ZipHookData(input_hook_outputs, i) == input_hook_outputs[i]

\* Where __call__ goes once i before-hooks, or i after-hooks, have run.
AfterBeforeHook(i) == IF i < NumHooks THEN "before" ELSE "load"

AfterAfterHook(i) == IF i < NumHooks THEN "after" ELSE "return"

\* Lines 385-389 of __call__: node n is invoked with the pairs
\* (parent name, output) of received_inputs.  The projection raises the
\* KeyError of the first parent that is not among them, outside any try.
StartCall(n, received_inputs) ==
    LET gn == gnodes[n]
        inv == CallCount(n) + 1
        missing == MissingInputs(gn.inputs, received_inputs)
        passed == ProjectedBeforeMissing(KeysIn(InputOrder, gn.inputs),
                                         gn.inputs, received_inputs)
        kwargs == ProjectInputs([k \in passed |-> gn.inputs[k]],
                                received_inputs)
    IN  IF missing = <<>>
        THEN /\ frame' = Frame(kwargs, <<>>, NoneVal, NoneVal)
             /\ trace' = Append(trace, [ev |-> "call", node |-> n,
                                        inv |-> inv, ok |-> TRUE,
                                        received |-> received_inputs,
                                        kwargs |-> kwargs])
             /\ pc' = At(AfterBeforeHook(0), n, inv, 1)
             /\ raised' = NoneVal
        ELSE /\ frame' = NoneVal
             /\ trace' = Append(trace, [ev |-> "call", node |-> n,
                                        inv |-> inv, ok |-> FALSE,
                                        exc |-> KeyError(Head(missing)),
                                        received |-> received_inputs,
                                        kwargs |-> kwargs])
             /\ pc' = At("raised", n, inv, 0)
             /\ raised' = KeyError(Head(missing))

\* One pass of the loop of _run_before_hooks: on_before_node returns.
BeforeHook ==
    /\ pc.at = "before"
    /\ LET gn == gnodes[pc.node]
           hook == HookAt(pc.i)
           hook_output == HookData(hook, pc.node, pc.inv)
       IN  /\ trace' = Append(trace, [ev |-> "before", node |-> pc.node,
                                      inv |-> pc.inv, hook |-> hook,
                                      ok |-> TRUE,
                                      returned |-> hook_output,
                                      config |-> gn.component_config,
                                      execution_context |-> ContextPassed(gn),
                                      received_inputs |-> frame.kwargs])
           /\ frame' = [frame EXCEPT !.input_hook_outputs =
                                        Append(@, hook_output)]
           /\ pc' = [pc EXCEPT !.at = AfterBeforeHook(pc.i),
                               !.i = IF pc.i < NumHooks THEN pc.i + 1 ELSE 1]
    /\ UNCHANGED <<gnodes, outputs, raised>>
    /\ UNCHANGED schemaVars
    /\ UNCHANGED direct
    /\ UNCHANGED <<result, suspended, context>>

\* One pass of the loop of _run_before_hooks: on_before_node raises e.
BeforeHookRaises ==
    /\ pc.at = "before"
    /\ LET gn == gnodes[pc.node]
           hook == HookAt(pc.i)
       IN  \E e \in Errors :
             /\ trace' = Append(trace, [ev |-> "before", node |-> pc.node,
                                        inv |-> pc.inv, hook |-> hook,
                                        ok |-> FALSE, exc |-> e,
                                        config |-> gn.component_config,
                                        execution_context |-> ContextPassed(gn),
                                        received_inputs |-> frame.kwargs])
             /\ raised' = BeforeHookError(pc.node, e)
    /\ pc' = [pc EXCEPT !.at = "raised"]
    /\ frame' = NoneVal
    /\ UNCHANGED <<gnodes, outputs>>
    /\ UNCHANGED schemaVars
    /\ UNCHANGED direct
    /\ UNCHANGED <<result, suspended, context>>

\* `if not self._eager:` taken: the constructor gets the inputs its
\* signature names and returns the component, which replaces self._component.
LoadLazy ==
    /\ pc.at = "load"
    /\ LET gn == gnodes[pc.node]
           constructor_kwargs ==
               minimal_kwargs(frame.kwargs,
                              ConstructorParams(gn.component_class,
                                                gn.constructor_name))
           component == NewComponent(gn, constructor_kwargs,
                                     ConstructCount(pc.node) + 1)
       IN  /\ LoadsInCall(gn)
           /\ gnodes' = [gnodes EXCEPT ![pc.node].component = component]
           /\ trace' = Append(trace, [ev |-> "construct", node |-> pc.node,
                                      inv |-> pc.inv, ok |-> TRUE,
                                      component |-> component,
                                      given |-> constructor_kwargs])
           /\ frame' = [frame EXCEPT !.run_kwargs =
                                        RunKwargs(frame.kwargs,
                                                  constructor_kwargs)]
    /\ pc' = [pc EXCEPT !.at = "fn"]
    /\ UNCHANGED <<outputs, raised>>
    /\ UNCHANGED schemaVars
    /\ UNCHANGED direct
    /\ UNCHANGED <<result, suspended, context>>

\* `if not self._eager:` taken and the constructor raises e: self._component
\* stays what it was.
LoadLazyRaises ==
    /\ pc.at = "load"
    /\ LET gn == gnodes[pc.node]
           constructor_kwargs ==
               minimal_kwargs(frame.kwargs,
                              ConstructorParams(gn.component_class,
                                                gn.constructor_name))
           component == NewComponent(gn, constructor_kwargs,
                                     ConstructCount(pc.node) + 1)
       IN  /\ LoadsInCall(gn)
           /\ \E e \in Errors :
                /\ trace' = Append(trace, [ev |-> "construct",
                                           node |-> pc.node, inv |-> pc.inv,
                                           ok |-> FALSE, exc |-> e,
                                           component |-> component,
                                           given |-> constructor_kwargs])
                /\ raised' = InitializingError(pc.node, e)
    /\ pc' = [pc EXCEPT !.at = "raised"]
    /\ frame' = NoneVal
    /\ UNCHANGED <<gnodes, outputs>>
    /\ UNCHANGED schemaVars
    /\ UNCHANGED direct
    /\ UNCHANGED <<result, suspended, context>>

\* The else branch: an eager node runs with all of kwargs.
LoadSkipped ==
    /\ pc.at = "load"
    /\ ~LoadsInCall(gnodes[pc.node])
    /\ frame' = [frame EXCEPT !.run_kwargs = EagerRunKwargs(frame.kwargs)]
    /\ pc' = [pc EXCEPT !.at = "fn"]
    /\ UNCHANGED <<gnodes, trace, outputs, raised>>
    /\ UNCHANGED schemaVars
    /\ UNCHANGED direct
    /\ UNCHANGED <<result, suspended, context>>

\* output = self._fn(self._component, **run_kwargs) returns.
RunFn ==
    /\ pc.at = "fn"
    /\ LET output == Output(pc.node, pc.inv)
       IN  /\ trace' = Append(trace, [ev |-> "fn", node |-> pc.node,
                                      inv |-> pc.inv, ok |-> TRUE,
                                      component |-> gnodes[pc.node].component,
                                      kwargs |-> frame.run_kwargs,
                                      output |-> output])
           /\ frame' = [frame EXCEPT !.output = output]
    /\ pc' = [pc EXCEPT !.at = AfterAfterHook(0), !.i = 1]
    /\ UNCHANGED <<gnodes, outputs, raised>>
    /\ UNCHANGED schemaVars
    /\ UNCHANGED direct
    /\ UNCHANGED <<result, suspended, context>>

\* self._fn(self._component, **run_kwargs) raises e.
RunFnRaisesRunsHooks ==
    /\ pc.at = "fn"
    /\ \E e \in Errors :
         /\ trace' = Append(trace, [ev |-> "fn", node |-> pc.node,
                                    inv |-> pc.inv, ok |-> FALSE, exc |-> e,
                                    component |-> gnodes[pc.node].component,
                                    kwargs |-> frame.run_kwargs])
         /\ raised' = RunningError(pc.node, e)
    /\ pc' = [pc EXCEPT !.at = AfterAfterHook(0), !.i = 1]
    /\ frame' = [frame EXCEPT !.output = NoneVal]
    /\ UNCHANGED <<gnodes, outputs>>
    /\ UNCHANGED schemaVars
    /\ UNCHANGED direct
    /\ UNCHANGED <<result, suspended, context>>

RunFnRaises ==
    /\ pc.at = "fn"
    /\ \E e \in Errors :
         /\ trace' = Append(trace, [ev |-> "fn", node |-> pc.node,
                                    inv |-> pc.inv, ok |-> FALSE, exc |-> e,
                                    component |-> gnodes[pc.node].component,
                                    kwargs |-> frame.run_kwargs])
         /\ raised' = RunningError(pc.node, e)
    /\ pc' = [pc EXCEPT !.at = "raised"]
    /\ frame' = NoneVal
    /\ UNCHANGED <<gnodes, outputs>>
    /\ UNCHANGED schemaVars
    /\ UNCHANGED direct
    /\ UNCHANGED <<result, suspended, context>>

\* One pass of the loop of _run_after_hooks over zip(hooks, hook outputs):
\* on_after_node returns.
AfterHook ==
    /\ pc.at = "after"
    /\ pc.i <= Len(frame.input_hook_outputs)
    /\ trace' = Append(trace, [ev |-> "after", node |-> pc.node,
                               inv |-> pc.inv, hook |-> HookAt(pc.i),
                               ok |-> TRUE,
                               config |-> gnodes[pc.node].component_config,
                               execution_context |->
                                   ContextPassed(gnodes[pc.node]),
                               output |-> frame.output,
                               input_hook_data |->
                                   ZipHookData(frame.input_hook_outputs,
                                               pc.i)])
    /\ pc' = [pc EXCEPT !.at = AfterAfterHook(pc.i),
                        !.i = IF pc.i < NumHooks THEN pc.i + 1 ELSE 1]
    /\ UNCHANGED <<gnodes, frame, outputs, raised>>
    /\ UNCHANGED schemaVars
    /\ UNCHANGED direct
    /\ UNCHANGED <<result, suspended, context>>

\* One pass of the loop of _run_after_hooks: on_after_node raises e.
AfterHookRaises ==
    /\ pc.at = "after"
    /\ pc.i <= Len(frame.input_hook_outputs)
    /\ \E e \in Errors :
         /\ trace' = Append(trace, [ev |-> "after", node |-> pc.node,
                                    inv |-> pc.inv, hook |-> HookAt(pc.i),
                                    ok |-> FALSE, exc |-> e,
                                    config |-> gnodes[pc.node].component_config,
                                    execution_context |->
                                        ContextPassed(gnodes[pc.node]),
                                    output |-> frame.output,
                                    input_hook_data |->
                                        ZipHookData(frame.input_hook_outputs,
                                                    pc.i)])
         /\ raised' = AfterHookError(pc.node, e)
    /\ pc' = [pc EXCEPT !.at = "raised"]
    /\ frame' = NoneVal
    /\ UNCHANGED <<gnodes, outputs>>
    /\ UNCHANGED schemaVars
    /\ UNCHANGED direct
    /\ UNCHANGED <<result, suspended, context>>

\* The pair that __call__ returns: self._node_name, output.
ReturnedPairByClass(gn, output) == <<gn.component_class.name, output>>

ReturnedPair(gn, output) == <<gn.node_name, output>>

\* return self._node_name, output: the caller holds the pair.
Return ==
    /\ pc.at = "return"
    /\ LET pair == ReturnedPair(gnodes[pc.node], frame.output)
       IN  /\ trace' = Append(trace, [ev |-> "return", node |-> pc.node,
                                      inv |-> pc.inv, name |-> pair[1],
                                      output |-> pair[2]])
           /\ outputs' = [m \in (DOMAIN outputs) \cup {pair[1]} |->
                             IF m = pair[1] THEN pair[2] ELSE outputs[m]]
    /\ pc' = At("idle", "", 0, 0)
    /\ frame' = NoneVal
    /\ UNCHANGED <<gnodes, raised>>
    /\ UNCHANGED schemaVars
    /\ UNCHANGED direct
    /\ UNCHANGED <<result, suspended, context>>

\* The statements of GraphNode.__init__ and GraphNode.__call__.
NodeStep ==
    \/ BuildLazy \/ BuildEager \/ BuildEagerRaises
    \/ BeforeHook \/ BeforeHookRaises
    \/ LoadLazy \/ LoadLazyRaises \/ LoadSkipped
    \/ RunFn \/ RunFnRaises
    \/ AfterHook \/ AfterHookRaises
    \/ Return

\* ------------------------------------------------------------ graph runner

\* The runner invokes a node that has not run in this run and whose parents,
\* as parent_node_names gives them, have all returned, handing it the pairs
\* (parent name, parent output).
RunnerInvoke(n) ==
    /\ pc.at = "idle"
    /\ n \in DOMAIN gnodes
    /\ n \notin DOMAIN outputs
    /\ CallCount(n) = 0
    /\ Range(parent_node_names(gnodes[n])) \subseteq DOMAIN outputs
    /\ StartCall(n, [p \in Range(parent_node_names(gnodes[n])) |->
                        outputs[p]])
    /\ UNCHANGED <<gnodes, outputs>>
    /\ UNCHANGED schemaVars
    /\ UNCHANGED direct
    /\ UNCHANGED <<result, suspended, context>>

\* Every node has run: the run returns the outputs of the is_target nodes,
\* keyed by node name.
RunnerReturn ==
    /\ pc.at = "idle"
    /\ DOMAIN outputs = DOMAIN schema
    /\ result' = [n \in Range(target_names(schema)) |-> outputs[n]]
    /\ pc' = At("done", "", 0, 0)
    /\ UNCHANGED <<gnodes, frame, trace, outputs, raised>>
    /\ UNCHANGED <<suspended, context>>
    /\ UNCHANGED schemaVars
    /\ UNCHANGED direct

\* A run: the GraphNodes of a schema are built, none is invoked yet.
Init ==
    /\ schema \in RunSchemas
    /\ SchemaIdle
    /\ gnodes = EmptyDict
    /\ pc = At("build", "", 0, 1)
    /\ frame = NoneVal
    /\ trace = <<>>
    /\ outputs = EmptyDict
    /\ raised = NoneVal
    /\ result = NoneVal
    /\ suspended = {}
    /\ context \in Contexts(schema)
    /\ direct = NoneVal

Next == NodeStep \/ (\E n \in Names : RunnerInvoke(n)) \/ RunnerReturn

Spec == Init /\ [][Next]_vars

\* ------------------------------------------------ siblings that interleave

\* The runner has a node to go on with other than the one that is running:
\* an invocation it has set aside, or a node that may start.
OtherToRun ==
    \/ suspended # {}
    \/ \E n \in DOMAIN gnodes :
         /\ CallCount(n) = 0
         /\ Range(parent_node_names(gnodes[n])) \subseteq DOMAIN outputs

\* How often the runner sets an invocation aside in a run.
MaxSwitches == 3

\* How often the runner has left an invocation that had not returned for
\* another one, as the trace shows it.
Switches ==
    Cardinality({i \in 1..(Len(trace) - 1) :
                    /\ trace[i].ev # "return"
                    /\ trace[i].node # trace[i + 1].node})

\* The runner sets the running invocation aside, between two statements of
\* __call__: another node may start or go on meanwhile.
Suspend ==
    /\ pc.at \in {"before", "load", "fn", "after", "return"}
    /\ OtherToRun
    /\ Switches + Cardinality(suspended) < MaxSwitches
    /\ suspended' = suspended \cup {[pc |-> pc, frame |-> frame]}
    /\ pc' = At("idle", "", 0, 0)
    /\ frame' = NoneVal
    /\ UNCHANGED <<gnodes, trace, outputs, raised, result, context>>
    /\ UNCHANGED schemaVars
    /\ UNCHANGED direct

\* The runner goes on with an invocation it has set aside.
Resume ==
    /\ pc.at = "idle"
    /\ \E s \in suspended :
         /\ pc' = s.pc
         /\ frame' = s.frame
         /\ suspended' = suspended \ {s}
    /\ UNCHANGED <<gnodes, trace, outputs, raised, result, context>>
    /\ UNCHANGED schemaVars
    /\ UNCHANGED direct

\* The diamonds that run with interleaving: all nodes lazy, or A eager.
ParSchemas ==
    {MakeSchema(DiamondNeeds, {"T", "B"}, RunFields(eagers, {})) :
        eagers \in {{}, {"A"}}}

InitPar ==
    /\ schema \in ParSchemas
    /\ SchemaIdle
    /\ gnodes = EmptyDict
    /\ pc = At("build", "", 0, 1)
    /\ frame = NoneVal
    /\ trace = <<>>
    /\ outputs = EmptyDict
    /\ raised = NoneVal
    /\ result = NoneVal
    /\ suspended = {}
    /\ context \in Contexts(schema)
    /\ direct = NoneVal

NextPar ==
    \/ NodeStep
    \/ \E n \in Names : RunnerInvoke(n)
    \/ RunnerReturn
    \/ Suspend
    \/ Resume

SpecPar == InitPar /\ [][NextPar]_vars

\* --------------------------------------------------- a node and its caller

\* The number of invocations a caller makes of the nodes it holds.
MaxCalls == 2

\* The output of parent p that a caller holds.
CallerValue(p) == Output(p, 0)

\* A caller invokes a node it holds, again or for the first time, after a
\* return or after an exception, with the outputs of all the node's parents.
CallerInvoke(n) ==
    /\ pc.at \in {"idle", "raised"}
    /\ n \in DOMAIN gnodes
    /\ Cardinality(Calls) < MaxCalls
    /\ StartCall(n, [p \in Parents(schema, n) |-> CallerValue(p)])
    /\ UNCHANGED <<gnodes, outputs>>
    /\ UNCHANGED schemaVars
    /\ UNCHANGED direct
    /\ UNCHANGED <<result, suspended, context>>

\* A caller invokes a node it holds without the output of the node's parent
\* p among the pairs it hands over.
CallerInvokeWithout(n, p) ==
    /\ pc.at \in {"idle", "raised"}
    /\ n \in DOMAIN gnodes
    /\ Cardinality(Calls) < MaxCalls
    /\ p \in Parents(schema, n)
    /\ StartCall(n, [q \in Parents(schema, n) \ {p} |-> CallerValue(q)])
    /\ UNCHANGED <<gnodes, outputs>>
    /\ UNCHANGED schemaVars
    /\ UNCHANGED direct
    /\ UNCHANGED <<result, suspended, context>>

\* One GraphNode, to be built from a SchemaNode of a graph that runs; its
\* caller stands in for the parents.
InitNode ==
    /\ \E s \in RunSchemas, n \in Names : schema = [m \in {n} |-> s[m]]
    /\ SchemaIdle
    /\ gnodes = EmptyDict
    /\ pc = At("build", "", 0, 1)
    /\ frame = NoneVal
    /\ trace = <<>>
    /\ outputs = EmptyDict
    /\ raised = NoneVal
    /\ result = NoneVal
    /\ suspended = {}
    /\ context \in Contexts(schema)
    /\ direct = NoneVal

NextNode ==
    \/ NodeStep
    \/ \E n \in Names : CallerInvoke(n)
    \/ \E n, p \in Names : CallerInvokeWithout(n, p)

SpecNode == InitNode /\ [][NextNode]_vars

\* ------------------------------------------- functions called on their own

\* No schema and no graph: a function is called outside a run.
NoGraph ==
    /\ schema = EmptyDict
    /\ schOp = "off"
    /\ serialized = NoneVal
    /\ loaded = NoneVal
    /\ minimal = NoneVal
    /\ stack = <<>>
    /\ gnodes = EmptyDict
    /\ pc = [at |-> "off"]
    /\ frame = NoneVal
    /\ trace = <<>>
    /\ outputs = EmptyDict
    /\ raised = NoneVal
    /\ result = NoneVal
    /\ suspended = {}
    /\ context = NoneVal

\* component.defaults of the components validated:
\* KeywordIntentClassifier's, one with two keys and one that has `name`
\* among its defaults, and a component without defaults.
ComponentDefaults ==
    {[case_sensitive |-> TRUE],
     [case_sensitive |-> TRUE, epochs |-> 1],
     [name |-> "default", epochs |-> 1],
     EmptyDict}

\* The keys a user config may hold.
UserConfigKeys == {"name", "case_sensitive", "epochs", "typo"}

\* The user configs of a component in the pipeline.
UserConfigs ==
    {[k \in keys |-> IF k = "name" THEN "KeywordIntentClassifier" ELSE 1] :
        keys \in SUBSET UserConfigKeys}

\* rasa.shared.utils.io.raise_warning(message) of validate_component_keys:
\* the message names the key, the component and the valid keys.
InvalidKeyWarning(key, component_name, allowed_keys) ==
    [tag |-> "warning", key |-> key, component |-> component_name,
     valid |-> allowed_keys]

\* provided_keys = set(component_config.keys()), then discard("name").
ProvidedKeysWithName(component_config) == DOMAIN component_config

ProvidedKeys(component_config) == (DOMAIN component_config) \ {"name"}

\* validate_component_keys(component, component_config) is called.
InitValidate ==
    /\ NoGraph
    /\ \E defaults \in ComponentDefaults, component_config \in UserConfigs :
         direct = [fn |-> "validate_component_keys", pc |-> "start",
                   defaults |-> defaults,
                   component_config |-> component_config,
                   component_name |-> NoneVal, allowed_keys |-> {},
                   provided_keys |-> {}, warnings |-> <<>>,
                   returned |-> NoneVal, raised |-> NoneVal]

\* Up to the loop: component_name, allowed_keys and provided_keys are set.
ValidateStart ==
    /\ direct.pc = "start"
    /\ direct' =
           [direct EXCEPT
               !.pc = "loop",
               !.component_name =
                   IF "name" \in DOMAIN direct.component_config
                   THEN direct.component_config["name"] ELSE NoneVal,
               !.allowed_keys = DOMAIN direct.defaults,
               !.provided_keys = ProvidedKeys(direct.component_config)]
    /\ UNCHANGED schemaVars
    /\ UNCHANGED nodeVars

\* One pass of the loop over provided_keys, a set: the keys come in any
\* order.
ValidateKey(key) ==
    /\ direct.pc = "loop"
    /\ key \in direct.provided_keys
    /\ direct' =
           [direct EXCEPT
               !.provided_keys = @ \ {key},
               !.warnings =
                   IF key \notin direct.allowed_keys
                   THEN Append(@, InvalidKeyWarning(key, direct.component_name,
                                                    direct.allowed_keys))
                   ELSE @]
    /\ UNCHANGED schemaVars
    /\ UNCHANGED nodeVars

\* The loop is over and the function returns None.
ValidateReturn ==
    /\ direct.pc = "loop"
    /\ direct.provided_keys = {}
    /\ direct' = [direct EXCEPT !.pc = "returned"]
    /\ UNCHANGED schemaVars
    /\ UNCHANGED nodeVars

NextValidate ==
    \/ ValidateStart
    \/ \E key \in UserConfigKeys : ValidateKey(key)
    \/ ValidateReturn

SpecValidate == InitValidate /\ [][NextValidate]_vars

\* The ModelStorage objects a component may be handed.
ModelStorages ==
    {[tag |-> "ModelStorage", id |-> 1], [tag |-> "ModelStorage", id |-> 2]}

\* The keyword arguments a caller passes to load beyond the four of the
\* contract: outputs of parent nodes.
ExtraKwargs ==
    {EmptyDict, [x |-> Output("A", 1)],
     [x |-> Output("A", 1), y |-> Output("B", 1)]}

\* The classes that define a load of their own.
OverridesLoad(cls) == cls = ClassifierCls

\* cls.create(config, model_storage, resource, execution_context) of a
\* concrete component class: an instance that holds what it was given.
create(cls, config, model_storage, resource, execution_context) ==
    [tag |-> "component", cls |-> cls, constructor |-> "create",
     config |-> config, model_storage |-> model_storage,
     resource |-> resource, execution_context |-> execution_context]

\* The arguments GraphComponent.load hands to cls.create.
LoadForwardsKwargs(args, kwargs) ==
    [args EXCEPT !.config = DictMerge(args.config, kwargs)]

LoadForwards(args, kwargs) == args

\* cls.load(config, model_storage, resource, execution_context, **kwargs) is
\* called.
InitCreate ==
    /\ NoGraph
    /\ \E cls \in Classes, config \in {EmptyDict, [epochs |-> 5]},
          model_storage \in ModelStorages,
          resource \in {Resource("A"), Resource("B")},
          execution_context \in Contexts(EmptyDict), kwargs \in ExtraKwargs :
         direct = [fn |-> "load", pc |-> "start", cls |-> cls,
                   args |-> [config |-> config,
                             model_storage |-> model_storage,
                             resource |-> resource,
                             execution_context |-> execution_context],
                   kwargs |-> kwargs, create_args |-> NoneVal,
                   returned |-> NoneVal, raised |-> NoneVal]

\* GraphComponent.load calls cls.create.
LoadCallsCreate ==
    /\ direct.pc = "start"
    /\ ~OverridesLoad(direct.cls)
    /\ direct' = [direct EXCEPT
                     !.pc = "create",
                     !.create_args = LoadForwards(direct.args, direct.kwargs)]
    /\ UNCHANGED schemaVars
    /\ UNCHANGED nodeVars

\* create returns, and load returns what it returned.
CreateReturns ==
    /\ direct.pc = "create"
    /\ direct' = [direct EXCEPT
                     !.pc = "returned",
                     !.returned = create(direct.cls,
                                         direct.create_args.config,
                                         direct.create_args.model_storage,
                                         direct.create_args.resource,
                                         direct.create_args.execution_context)]
    /\ UNCHANGED schemaVars
    /\ UNCHANGED nodeVars

\* create raises, and the exception leaves load.
CreateRaises(e) ==
    /\ direct.pc = "create"
    /\ direct' = [direct EXCEPT !.pc = "raised", !.raised = e]
    /\ UNCHANGED schemaVars
    /\ UNCHANGED nodeVars

\* The load of a class that overrides it: the instance is restored from the
\* resource with the parent outputs the signature declares, without create.
LoadOverridden ==
    /\ direct.pc = "start"
    /\ OverridesLoad(direct.cls)
    /\ direct' =
           [direct EXCEPT
               !.pc = "returned",
               !.returned =
                   [tag |-> "component", cls |-> direct.cls,
                    constructor |-> "load", config |-> direct.args.config,
                    model_storage |-> direct.args.model_storage,
                    resource |-> direct.args.resource,
                    execution_context |-> direct.args.execution_context,
                    kwargs |-> minimal_kwargs(
                                   direct.kwargs,
                                   ConstructorParams(direct.cls, "load"))]]
    /\ UNCHANGED schemaVars
    /\ UNCHANGED nodeVars

NextCreate ==
    \/ LoadCallsCreate
    \/ CreateReturns
    \/ \E e \in Errors : CreateRaises(e)
    \/ LoadOverridden

SpecCreate == InitCreate /\ [][NextCreate]_vars

\* -------------------------------------------------------- ComponentBuilder

\* The number of create_component and load_component calls on one builder.
MaxBuilderCalls == 3

\* The component configurations handed to a builder: a component whose
\* class implements cache_key, with and without the key's source in its
\* config, and one whose class does not.
BuilderConfigs ==
    {[name |-> "SpacyNLP", model |-> "en"], [name |-> "SpacyNLP"],
     [name |-> "KeywordIntentClassifier"]}

\* The model metadata: Metadata(cfg.as_dict()), of which the language counts.
BuilderMetadata == {[language |-> "en"], [language |-> "de"]}

\* component_class.cache_key(component_meta, model_metadata): None unless
\* the class implements it; then a string made of the component's name and
\* the model it loads, taken from the config or else from the language.
cache_key(component_meta, model_metadata) ==
    IF component_meta.name # "SpacyNLP" THEN NoneVal
    ELSE [tag |-> "str", name |-> component_meta.name,
          model |-> IF "model" \in DOMAIN component_meta
                    THEN component_meta.model
                    ELSE model_metadata.language]

\* The component the registry builds for a config: a new object each time.
BuiltComponent(component_meta, serial) ==
    [tag |-> "Component", name |-> component_meta.name, serial |-> serial]

\* ComponentBuilder.__get_cached_component: the component, if found, and
\* the cache key.
get_cached_component_unkeyed(builder, component_meta, model_metadata) ==
    LET key == cache_key(component_meta, model_metadata)
    IN  IF builder.use_cache /\ builder.component_cache # EmptyDict
        THEN [component |->
                  builder.component_cache[
                      CHOOSE k \in DOMAIN builder.component_cache : TRUE],
              cache_key |-> key]
        ELSE [component |-> NoneVal, cache_key |-> key]

get_cached_component(builder, component_meta, model_metadata) ==
    LET key == cache_key(component_meta, model_metadata)
    IN  IF /\ key # NoneVal
           /\ builder.use_cache
           /\ key \in DOMAIN builder.component_cache
        THEN [component |-> builder.component_cache[key], cache_key |-> key]
        ELSE [component |-> NoneVal, cache_key |-> key]

\* ComponentBuilder.__add_to_cache: the cache after the call.
add_to_cache_always(builder, component, key) ==
    IF key # NoneVal
    THEN DictMerge(builder.component_cache, [k \in {key} |-> component])
    ELSE builder.component_cache

add_to_cache(builder, component, key) ==
    IF key # NoneVal /\ builder.use_cache
    THEN DictMerge(builder.component_cache, [k \in {key} |-> component])
    ELSE builder.component_cache

\* The RasaException create_component raises from a MissingArgumentError.
FailedToCreate(component_config) ==
    [tag |-> "Exception", type |-> "RasaException",
     component |-> component_config.name]

\* ComponentBuilder(use_cache): the cache is empty.  `built` counts the
\* components the registry has built, `log` holds the calls made.
InitBuilder ==
    /\ NoGraph
    /\ \E use_cache \in BOOLEAN :
         direct = [fn |-> "ComponentBuilder", use_cache |-> use_cache,
                   component_cache |-> EmptyDict, built |-> 0, log |-> <<>>]

\* builder.create_component(component_config, cfg) returns.
CreateComponent(component_config, model_metadata) ==
    /\ Len(direct.log) < MaxBuilderCalls
    /\ LET got == get_cached_component(direct, component_config,
                                       model_metadata)
           miss == got.component = NoneVal
           component == IF miss
                        THEN BuiltComponent(component_config, direct.built + 1)
                        ELSE got.component
       IN  direct' =
               [direct EXCEPT
                   !.component_cache =
                       IF miss THEN add_to_cache(direct, component,
                                                 got.cache_key)
                       ELSE @,
                   !.built = IF miss THEN @ + 1 ELSE @,
                   !.log = Append(@, [op |-> "create_component",
                                      config |-> component_config,
                                      cache_key |-> got.cache_key,
                                      cached |-> got.component,
                                      built |-> miss, ok |-> TRUE,
                                      returned |-> component])]
    /\ UNCHANGED schemaVars
    /\ UNCHANGED nodeVars

\* builder.create_component(component_config, cfg) finds nothing cached and
\* the registry raises MissingArgumentError: a RasaException leaves the call.
CreateComponentRaises(component_config, model_metadata) ==
    /\ Len(direct.log) < MaxBuilderCalls
    /\ LET got == get_cached_component(direct, component_config,
                                       model_metadata)
       IN  /\ got.component = NoneVal
           /\ direct' =
                  [direct EXCEPT
                      !.log = Append(@, [op |-> "create_component",
                                         config |-> component_config,
                                         cache_key |-> got.cache_key,
                                         cached |-> got.component,
                                         built |-> FALSE, ok |-> FALSE,
                                         returned |->
                                             FailedToCreate(component_config)])]
    /\ UNCHANGED schemaVars
    /\ UNCHANGED nodeVars

\* builder.load_component(component_meta, model_dir, model_metadata)
\* returns.  The load of the component's class is handed the cached
\* component and returns it (reuse) or, as KeywordIntentClassifier.load
\* does, a new component.
LoadComponent(component_meta, model_metadata, reuse) ==
    /\ Len(direct.log) < MaxBuilderCalls
    /\ LET got == get_cached_component(direct, component_meta, model_metadata)
           cached_component == got.component
           fresh == cached_component = NoneVal \/ ~reuse
           component == IF fresh
                        THEN BuiltComponent(component_meta, direct.built + 1)
                        ELSE cached_component
       IN  /\ cached_component = NoneVal => reuse
           /\ direct' =
                  [direct EXCEPT
                      !.component_cache =
                          IF cached_component = NoneVal
                          THEN add_to_cache(direct, component, got.cache_key)
                          ELSE @,
                      !.built = IF fresh THEN @ + 1 ELSE @,
                      !.log = Append(@, [op |-> "load_component",
                                         config |-> component_meta,
                                         cache_key |-> got.cache_key,
                                         cached |-> cached_component,
                                         built |-> fresh, ok |-> TRUE,
                                         returned |-> component])]
    /\ UNCHANGED schemaVars
    /\ UNCHANGED nodeVars

NextBuilder ==
    \/ \E c \in BuilderConfigs, m \in BuilderMetadata : CreateComponent(c, m)
    \/ \E c \in BuilderConfigs, m \in BuilderMetadata :
         CreateComponentRaises(c, m)
    \/ \E c \in BuilderConfigs, m \in BuilderMetadata, reuse \in BOOLEAN :
         LoadComponent(c, m, reuse)

SpecBuilder == InitBuilder /\ [][NextBuilder]_vars

\* ------------------------------------------------ KeywordIntentClassifier

\* The number of intent examples of the training data.
MaxExamples == 2

\* Keywords (the texts of intent examples), each the sequence of its words,
\* in the order a loaded keyword map holds them.
KeywordOrder == <<<<"hi">>, <<"Hi", "there">>, <<"say", "hi">>>>

Keywords == Range(KeywordOrder)

Intents == {"greet", "chat"}

\* str.lower of a word, as re.IGNORECASE compares.
Lower(word) == IF word = "Hi" THEN "hi" ELSE word

\* intent_keyword_map is a dict: here the sequence of its items, in
\* insertion order, each keyword once.
MapKeys(map) == {map[i].keyword : i \in 1..Len(map)}

MapGet(map, keyword) ==
    map[CHOOSE i \in 1..Len(map) : map[i].keyword = keyword].intent

\* map[keyword] = intent: a new key goes to the end.
MapSet(map, keyword, intent) ==
    IF keyword \in MapKeys(map)
    THEN [i \in 1..Len(map) |->
             IF map[i].keyword = keyword
             THEN [keyword |-> keyword, intent |-> intent] ELSE map[i]]
    ELSE Append(map, [keyword |-> keyword, intent |-> intent])

\* map.pop(keyword) of a key the map holds.
MapPop(map, keyword) == SelectSeq(map, LAMBDA item : item.keyword # keyword)

\* The keyword maps a classifier is constructed with.
KeywordMaps ==
    {SelectSeq([i \in 1..Len(KeywordOrder) |->
                   [keyword |-> KeywordOrder[i], intent |-> f[KeywordOrder[i]]]],
               LAMBDA item : item.intent # "")
        : f \in [Keywords -> Intents \cup {""}]}

\* training_data.intent_examples: the sequences of up to MaxExamples
\* examples.
IntentExamples ==
    UNION {[1..n -> [text : Keywords, intent : Intents]] : n \in 0..MaxExamples}

\* re.search(r"\b" + keyword1 + r"\b", keyword2, flags=re_flag): keyword1
\* occurs in keyword2 as a run of whole words.
WholeWordSearch(keyword1, keyword2, case_sensitive) ==
    \E off \in 0..(Len(keyword2) - Len(keyword1)) :
        \A i \in 1..Len(keyword1) :
            IF case_sensitive THEN keyword1[i] = keyword2[off + i]
            ELSE Lower(keyword1[i]) = Lower(keyword2[off + i])

\* One pass of the loop of train over the intent examples: the keyword map
\* and duplicate_examples after it.
TrainStepPopsAtOnce(map, duplicate_examples, ex) ==
    IF ex.text \in MapKeys(map) /\ ex.intent # MapGet(map, ex.text)
    THEN [map |-> MapPop(map, ex.text), duplicate_examples |-> duplicate_examples]
    ELSE [map |-> MapSet(map, ex.text, ex.intent),
          duplicate_examples |-> duplicate_examples]

TrainStep(map, duplicate_examples, ex) ==
    IF ex.text \in MapKeys(map) /\ ex.intent # MapGet(map, ex.text)
    THEN [map |-> map, duplicate_examples |-> duplicate_examples \cup {ex.text}]
    ELSE [map |-> MapSet(map, ex.text, ex.intent),
          duplicate_examples |-> duplicate_examples]

\* The first double loop of _validate_keyword_map: ambiguous_mappings, one
\* entry for every pair of items of which the first keyword is found in the
\* second and the intents differ.
AmbiguousMappings(map, case_sensitive) ==
    LET n == Len(map)
        pairs == [p \in 1..(n * n) |-> <<((p - 1) \div n) + 1, ((p - 1) % n) + 1>>]
        hits == SelectSeq(pairs,
                    LAMBDA p : /\ WholeWordSearch(map[p[1]].keyword,
                                                  map[p[2]].keyword,
                                                  case_sensitive)
                               /\ map[p[1]].intent # map[p[2]].intent)
    IN  [i \in 1..Len(hits) |->
            [intent |-> map[hits[i][1]].intent,
             keyword |-> map[hits[i][1]].keyword]]

\* A KeywordIntentClassifier with a keyword map, and train about to be
\* called with the intent examples.
InitKeyword ==
    /\ NoGraph
    /\ \E case_sensitive \in BOOLEAN, map \in KeywordMaps,
          examples \in IntentExamples :
         direct = [fn |-> "KeywordIntentClassifier", pc |-> "train",
                   case_sensitive |-> case_sensitive,
                   prior |-> map, intent_examples |-> examples,
                   examples |-> examples, intent_keyword_map |-> map,
                   duplicate_examples |-> {}, validated |-> NoneVal,
                   ambiguous_mappings |-> <<>>, raised |-> NoneVal]

\* train: one pass of the loop over the intent examples.
TrainExample ==
    /\ direct.pc = "train"
    /\ direct.examples # <<>>
    /\ LET step == TrainStep(direct.intent_keyword_map,
                             direct.duplicate_examples, Head(direct.examples))
       IN  direct' = [direct EXCEPT
                         !.examples = Tail(@),
                         !.intent_keyword_map = step.map,
                         !.duplicate_examples = step.duplicate_examples]
    /\ UNCHANGED schemaVars
    /\ UNCHANGED nodeVars

\* train: the loop that pops every duplicate example, up to the call of
\* _validate_keyword_map.
TrainPopDuplicates ==
    /\ direct.pc = "train"
    /\ direct.examples = <<>>
    /\ direct' = [direct EXCEPT
                     !.pc = "validate",
                     !.intent_keyword_map =
                         SelectSeq(@, LAMBDA item : item.keyword
                                          \notin direct.duplicate_examples)]
    /\ UNCHANGED schemaVars
    /\ UNCHANGED nodeVars

\* _validate_keyword_map: the loops that fill ambiguous_mappings.
ValidateCollect ==
    /\ direct.pc = "validate"
    /\ direct' = [direct EXCEPT
                     !.pc = "pop",
                     !.validated = direct.intent_keyword_map,
                     !.ambiguous_mappings =
                         AmbiguousMappings(direct.intent_keyword_map,
                                           direct.case_sensitive)]
    /\ UNCHANGED schemaVars
    /\ UNCHANGED nodeVars

\* _validate_keyword_map: one pass of the loop that pops the ambiguous
\* keywords, for a keyword the map holds.
ValidatePop ==
    /\ direct.pc = "pop"
    /\ direct.ambiguous_mappings # <<>>
    /\ Head(direct.ambiguous_mappings).keyword
           \in MapKeys(direct.intent_keyword_map)
    /\ direct' = [direct EXCEPT
                     !.ambiguous_mappings = Tail(@),
                     !.intent_keyword_map =
                         MapPop(@, Head(direct.ambiguous_mappings).keyword)]
    /\ UNCHANGED schemaVars
    /\ UNCHANGED nodeVars

\* The same pass for a keyword the map does not hold: dict.pop raises
\* KeyError, which leaves _validate_keyword_map and train.
ValidatePopRaises ==
    /\ direct.pc = "pop"
    /\ direct.ambiguous_mappings # <<>>
    /\ Head(direct.ambiguous_mappings).keyword
           \notin MapKeys(direct.intent_keyword_map)
    /\ direct' = [direct EXCEPT
                     !.pc = "raised",
                     !.raised = [tag |-> "Exception", type |-> "KeyError",
                                 key |-> Head(direct.ambiguous_mappings).keyword]]
    /\ UNCHANGED schemaVars
    /\ UNCHANGED nodeVars

\* _validate_keyword_map and train return.
ValidateDone ==
    /\ direct.pc = "pop"
    /\ direct.ambiguous_mappings = <<>>
    /\ direct' = [direct EXCEPT !.pc = "returned"]
    /\ UNCHANGED schemaVars
    /\ UNCHANGED nodeVars

NextKeyword ==
    \/ TrainExample
    \/ TrainPopDuplicates
    \/ ValidateCollect
    \/ ValidatePop
    \/ ValidatePopRaises
    \/ ValidateDone

SpecKeyword == InitKeyword /\ [][NextKeyword]_vars

\* ------------------------------------------- the pipeline against the data

\* The number of components of a pipeline.
MaxPipeline == 3

\* The components a pipeline is made of: their name and, of a
\* CRFEntityExtractor, its `features` ([[before], [word], [after]]).
CRFWithPattern ==
    [name |-> "CRFEntityExtractor",
     component_config |->
         [features |-> <<<<"low">>, <<"pattern", "bias">>, <<"low">>>>]]

CRFWithoutPattern ==
    [name |-> "CRFEntityExtractor",
     component_config |-> [features |-> <<<<"low">>, <<"bias">>, <<"low">>>>]]

PipelineComponents ==
    {CRFWithPattern, CRFWithoutPattern}
    \cup {[name |-> n, component_config |-> EmptyDict] :
             n \in {"DIETClassifier", "RegexFeaturizer", "EntitySynonymMapper"}}

Pipelines == UNION {[1..n -> PipelineComponents] : n \in 0..MaxPipeline}

\* The TrainingData: which kinds of data it has.
TrainingDatas ==
    [response_examples : BOOLEAN, entity_examples : BOOLEAN,
     entity_roles_groups_used : BOOLEAN, regex_features : BOOLEAN,
     lookup_tables : BOOLEAN, entity_synonyms : BOOLEAN]

\* rasa.shared.nlu.constants.TRAINABLE_EXTRACTORS.
TRAINABLE_EXTRACTORS ==
    {"MitieEntityExtractor", "CRFEntityExtractor", "DIETClassifier"}

\* find_components_in_pipeline and any_components_in_pipeline.
find_components_in_pipeline(components, pipeline) ==
    {pipeline[i].name : i \in 1..Len(pipeline)} \cap components

any_components_in_pipeline(components, pipeline) ==
    Cardinality(find_components_in_pipeline(components, pipeline)) > 0

\* "pattern" in itertools.chain(*crf_features).
HasPattern(crf) ==
    \E i \in 1..Len(crf.component_config.features) :
        "pattern" \in Range(crf.component_config.features[i])

\* The warnings of validate_required_components_from_data up to the
\* `if data.lookup_tables:` block, in order.
WarningsBeforeLookup(pipeline, data) ==
    (IF /\ data.response_examples
        /\ ~any_components_in_pipeline({"ResponseSelector"}, pipeline)
     THEN <<"response_selector">> ELSE <<>>)
    \o (IF /\ data.entity_examples
           /\ ~any_components_in_pipeline(TRAINABLE_EXTRACTORS, pipeline)
        THEN <<"entity_extractor">> ELSE <<>>)
    \o (IF /\ data.entity_examples
           /\ ~any_components_in_pipeline({"DIETClassifier",
                                           "CRFEntityExtractor"}, pipeline)
           /\ data.entity_roles_groups_used
        THEN <<"roles_groups">> ELSE <<>>)
    \o (IF /\ data.regex_features
           /\ ~any_components_in_pipeline({"RegexFeaturizer",
                                           "RegexEntityExtractor"}, pipeline)
        THEN <<"regexes">> ELSE <<>>)
    \o (IF /\ data.lookup_tables
           /\ ~any_components_in_pipeline({"RegexFeaturizer",
                                           "RegexEntityExtractor"}, pipeline)
        THEN <<"lookup_regex">> ELSE <<>>)

\* The warning after the block.
WarningsAfterLookup(pipeline, data) ==
    IF /\ data.entity_synonyms
       /\ ~any_components_in_pipeline({"EntitySynonymMapper"}, pipeline)
    THEN <<"synonyms">> ELSE <<>>

\* validate_required_components_from_data(pipeline, data) is called.
InitPipeline ==
    /\ NoGraph
    /\ \E pipeline \in Pipelines, data \in TrainingDatas :
         direct = [fn |-> "validate_required_components_from_data",
                   pc |-> "start", pipeline |-> pipeline, data |-> data,
                   crf_components |-> <<>>, has_pattern_feature |-> FALSE,
                   warnings |-> <<>>]

\* From the start to the `if data.lookup_tables:` block: no lookup tables,
\* or a pipeline with a DIETClassifier and no CRFEntityExtractor.
PipelineNoCrfLoop ==
    /\ direct.pc = "start"
    /\ \/ ~direct.data.lookup_tables
       \/ /\ any_components_in_pipeline({"CRFEntityExtractor",
                                         "DIETClassifier"}, direct.pipeline)
          /\ ~any_components_in_pipeline({"CRFEntityExtractor"},
                                         direct.pipeline)
    /\ direct' =
           [direct EXCEPT
               !.pc = "returned",
               !.warnings =
                   WarningsBeforeLookup(direct.pipeline, direct.data)
                   \o WarningsAfterLookup(direct.pipeline, direct.data)]
    /\ UNCHANGED schemaVars
    /\ UNCHANGED nodeVars

\* Lookup tables and neither a CRFEntityExtractor nor a DIETClassifier.
PipelineLookupUnused ==
    /\ direct.pc = "start"
    /\ direct.data.lookup_tables
    /\ ~any_components_in_pipeline({"CRFEntityExtractor", "DIETClassifier"},
                                   direct.pipeline)
    /\ direct' =
           [direct EXCEPT
               !.pc = "returned",
               !.warnings =
                   WarningsBeforeLookup(direct.pipeline, direct.data)
                   \o <<"lookup_unused">>
                   \o WarningsAfterLookup(direct.pipeline, direct.data)]
    /\ UNCHANGED schemaVars
    /\ UNCHANGED nodeVars

\* Lookup tables and a CRFEntityExtractor: crf_components is set, the loop
\* over it is next.
PipelineCrfStart ==
    /\ direct.pc = "start"
    /\ direct.data.lookup_tables
    /\ any_components_in_pipeline({"CRFEntityExtractor"}, direct.pipeline)
    /\ direct' =
           [direct EXCEPT
               !.pc = "crf",
               !.crf_components =
                   SelectSeq(direct.pipeline,
                             LAMBDA c : c.name = "CRFEntityExtractor"),
               !.has_pattern_feature = FALSE,
               !.warnings = WarningsBeforeLookup(direct.pipeline, direct.data)]
    /\ UNCHANGED schemaVars
    /\ UNCHANGED nodeVars

\* One pass of the loop: has_pattern_feature is assigned for this crf.
PipelineCrf ==
    /\ direct.pc = "crf"
    /\ direct.crf_components # <<>>
    /\ direct' =
           [direct EXCEPT
               !.crf_components = Tail(@),
               !.has_pattern_feature = HasPattern(Head(direct.crf_components))]
    /\ UNCHANGED schemaVars
    /\ UNCHANGED nodeVars

\* After the loop: the warning if has_pattern_feature is unset, then the
\* rest of the function.
PipelineCrfDone ==
    /\ direct.pc = "crf"
    /\ direct.crf_components = <<>>
    /\ direct' =
           [direct EXCEPT
               !.pc = "returned",
               !.warnings =
                   @ \o (IF ~direct.has_pattern_feature
                         THEN <<"crf_pattern">> ELSE <<>>)
                     \o WarningsAfterLookup(direct.pipeline, direct.data)]
    /\ UNCHANGED schemaVars
    /\ UNCHANGED nodeVars

NextPipeline ==
    \/ PipelineNoCrfLoop
    \/ PipelineLookupUnused
    \/ PipelineCrfStart
    \/ PipelineCrf
    \/ PipelineCrfDone

SpecPipeline == InitPipeline /\ [][NextPipeline]_vars

\* ------------------------------------------------- claims on GraphSchema

\* C1: from_dict(s.as_dict()) is a schema with the node names of s and, for
\* every node, the needs, the component class and every other field
\* (resource included) of s.
C1_RoundTrip ==
    schOp = "from_dict" =>
        /\ loaded.tag = "GraphSchema"
        /\ DOMAIN loaded.nodes = DOMAIN schema
        /\ \A n \in DOMAIN schema :
             /\ loaded.nodes[n].needs = schema[n].needs
             /\ loaded.nodes[n].uses = schema[n].uses
             /\ loaded.nodes[n] = schema[n]

\* A schema with a stored resource, a node with two inputs and two classes
\* of the same __name__ has gone through as_dict and from_dict.
C1_Witness ==
    /\ schOp = "from_dict"
    /\ \E n \in DOMAIN schema : schema[n].resource # NoneVal
    /\ \E n \in DOMAIN schema : DOMAIN schema[n].needs = {"x", "y"}
    /\ \E n, m \in DOMAIN schema :
         /\ schema[n].uses # schema[m].uses
         /\ schema[n].uses.name = schema[m].uses.name

\* The is_target nodes of the schema at hand.
Targets == {n \in DOMAIN schema : schema[n].is_target}

\* C2: the nodes of minimal_graph_schema() are exactly the nodes reachable
\* from the is_target nodes by following needs values, targets included.
C2_MinimalIsReachable ==
    schOp = "minimal" =>
        /\ DOMAIN minimal = ReachableFrom(schema, Targets)
        /\ \A n \in DOMAIN schema :
             n \notin ReachableFrom(schema, Targets) => n \notin DOMAIN minimal

\* A schema was pruned that keeps a node two needs-steps away from its only
\* target and drops another node.
C2_Witness ==
    /\ schOp = "minimal"
    /\ Cardinality(Targets) = 1
    /\ \E t \in Targets, n \in DOMAIN minimal :
         /\ n # t
         /\ n \notin Parents(schema, t)
    /\ DOMAIN minimal # DOMAIN schema

\* --------------------------------------------------- claims on GraphNode

\* The index in the trace of the call event of invocation inv of node n.
CallEvent(n, inv) ==
    CHOOSE j \in DOMAIN trace :
        trace[j].ev = "call" /\ trace[j].node = n /\ trace[j].inv = inv

\* The calls of the designated function and the returns of the trace.
FnCalls == {i \in DOMAIN trace : trace[i].ev = "fn"}

Returns == {i \in DOMAIN trace : trace[i].ev = "return"}

\* The number of times v occurs in seq.
RECURSIVE Count(_, _)
Count(seq, v) ==
    IF seq = <<>> THEN 0
    ELSE (IF Head(seq) = v THEN 1 ELSE 0) + Count(Tail(seq), v)

\* t, a, b, c form a diamond of the schema: target t needs a and b, and
\* both need c.
IsDiamond(t, a, b, c) ==
    /\ Cardinality({t, a, b, c}) = 4
    /\ schema[t].is_target
    /\ {a, b} \subseteq Parents(schema, t)
    /\ c \in Parents(schema, a) \cap Parents(schema, b)

\* C3: in a diamond, minimal_graph_schema() holds C exactly once, a run
\* invokes C exactly once, and what A and B receive from C is the output of
\* that one invocation.
C3_Diamond ==
    \A t, a, b, c \in DOMAIN schema :
        IsDiamond(t, a, b, c) =>
            /\ Count(minimal_graph_schema_items(schema), c) = 1
            /\ CallCount(c) <= 1
            /\ DOMAIN outputs = DOMAIN schema => CallCount(c) = 1
            /\ \A i \in DOMAIN trace :
                 (trace[i].ev = "call" /\ trace[i].node \in {a, b}) =>
                     /\ CallCount(c) = 1
                     /\ c \in DOMAIN outputs
                     /\ outputs[c] = Output(c, 1)
                     /\ \A k \in DOMAIN schema[trace[i].node].needs :
                          schema[trace[i].node].needs[k] = c =>
                              trace[i].kwargs[k] = outputs[c]

\* The run of a diamond has returned from every node.
C3_Witness ==
    /\ \E t, a, b, c \in DOMAIN schema : IsDiamond(t, a, b, c)
    /\ DOMAIN outputs = DOMAIN schema
    /\ pc.at = "idle"

\* C4 as claimed: once created, the component instance of a node is never
\* replaced, however often the node is invoked: the constructor does not
\* return an instance for the node a second time.
C4_ConstructedOnce ==
    \A n \in DOMAIN schema :
        Cardinality({i \in Constructs : trace[i].node = n /\ trace[i].ok}) <= 1

\* C4 as amended: the constructor of an eager node is called once, at
\* construction, and its component is never replaced; the constructor of a
\* lazy node is called at most once in each invocation, in every invocation
\* that gets past the before-hooks, and the component it returns replaces
\* the one before.
C4_OncePerInvocation ==
    \A n \in DOMAIN gnodes :
        IF gnodes[n].eager
        THEN /\ ConstructCount(n) = 1
             /\ \A i \in Constructs : trace[i].node = n => trace[i].inv = 0
             /\ gnodes[n].component # NoneVal
             /\ gnodes[n].component.serial = 1
        ELSE /\ \A i, j \in Constructs :
                  (trace[i].node = n /\ trace[j].node = n
                   /\ trace[i].inv = trace[j].inv) => i = j
             /\ \A i \in Constructs : trace[i].node = n => trace[i].inv >= 1
             /\ \A i \in FnCalls :
                  trace[i].node = n =>
                      /\ trace[i - 1].ev = "construct"
                      /\ trace[i - 1].inv = trace[i].inv
                      /\ trace[i].component = trace[i - 1].component
                      /\ trace[i].component.serial
                            = Cardinality({j \in Constructs :
                                              j < i /\ trace[j].node = n})

\* A lazy node has returned from its second invocation, its constructor
\* called in both.
C4_Witness ==
    \E n \in DOMAIN gnodes :
        /\ ~gnodes[n].eager
        /\ ConstructCount(n) = 2
        /\ gnodes[n].component # NoneVal
        /\ gnodes[n].component.serial = 2
        /\ \E i \in Returns : trace[i].node = n /\ trace[i].inv = 2

\* C5: the constructor of an eager node is called while its GraphNode is
\* constructed, and every eager node is instantiated before any node is
\* invoked; the constructor of a lazy node is not called at construction and
\* is called first within the node's first invocation.
C5_EagerAndLazy ==
    /\ \A i \in Constructs :
         LET n == trace[i].node
         IN  IF schema[n].eager
             THEN /\ trace[i].inv = 0
                  /\ \A j \in 1..i : trace[j].ev # "call"
             ELSE /\ trace[i].inv >= 1
                  /\ \E j \in 1..i :
                       /\ trace[j].ev = "call"
                       /\ trace[j].node = n
                       /\ trace[j].inv = trace[i].inv
                       /\ \A k \in j..i : trace[k].node = n
                  /\ (\A j \in Constructs : trace[j].node = n => i <= j)
                        => trace[i].inv = 1
    /\ \A i \in DOMAIN trace :
         trace[i].ev = "call" =>
             \A m \in DOMAIN schema :
                 schema[m].eager =>
                     \E j \in 1..i :
                         /\ trace[j].ev = "construct"
                         /\ trace[j].node = m
                         /\ trace[j].ok
                         /\ gnodes[m].component = trace[j].component
    /\ \A n \in DOMAIN gnodes :
         (~schema[n].eager /\ CallCount(n) = 0) =>
             gnodes[n].component = NoneVal

\* An eager node was instantiated at construction and a lazy node within
\* its first invocation.
C5_Witness ==
    \E i, j \in Constructs :
        /\ schema[trace[i].node].eager
        /\ ~schema[trace[j].node].eager
        /\ trace[i].ok /\ trace[j].ok
        /\ i < j
        /\ trace[j - 1].ev = "before"

\* What the events of the invocation that ends with the return at index r
\* must be, first to last: before-hooks, instantiation if lazy, function,
\* after-hooks, return.
InvocationOrder(r) ==
    LET n == trace[r].node
        lazy == IF schema[n].eager THEN 0 ELSE 1
        first == r - (2 * NumHooks + 2 + lazy)
        fn == first + NumHooks + lazy + 1
    IN  /\ first >= 1
        /\ \A k \in first..r :
             trace[k].node = n /\ trace[k].inv = trace[r].inv
        /\ trace[first].ev = "call"
        /\ \A h \in 1..NumHooks :
             /\ trace[first + h].ev = "before"
             /\ trace[first + h].hook = Hooks[h]
             /\ trace[first + h].ok
        /\ lazy = 1 =>
             /\ trace[fn - 1].ev = "construct"
             /\ trace[fn - 1].ok
             /\ trace[fn].component = trace[fn - 1].component
        /\ trace[fn].ev = "fn" /\ trace[fn].ok
        /\ \A h \in 1..NumHooks :
             /\ trace[fn + h].ev = "after"
             /\ trace[fn + h].hook = Hooks[h]
             /\ trace[fn + h].ok
        /\ trace[r].name = n
        /\ trace[r].output = trace[fn].output

\* C6: a successful invocation runs the before-hooks in registration order,
\* then instantiates a lazy component, then runs the designated function,
\* then the after-hooks in registration order, then returns the pair of the
\* node name and the function's output.
C6_InvocationOrder ==
    \A r \in Returns : InvocationOrder(r)

\* A lazy node and an eager node have each returned.
C6_Witness ==
    \E r, q \in Returns :
        /\ ~schema[trace[r].node].eager
        /\ schema[trace[q].node].eager

\* C7: when the designated function raises e the invocation raises a
\* GraphComponentException that names the node and has e as its cause, and
\* returns no pair.
C7_FnErrorWrapped ==
    \A i \in FnCalls :
        ~trace[i].ok =>
            /\ i = Len(trace)
            /\ pc.at = "raised"
            /\ raised.tag = "GraphComponentException"
            /\ raised.node = trace[i].node
            /\ raised.cause = trace[i].exc
            /\ \A r \in Returns :
                 ~(trace[r].node = trace[i].node /\ trace[r].inv = trace[i].inv)
            /\ trace[i].node \notin DOMAIN outputs

\* The designated function of a node has raised ValueError("boom").
C7_Witness ==
    \E i \in FnCalls :
        /\ ~trace[i].ok
        /\ trace[i].exc.type = "ValueError"
        /\ trace[i].exc.msg = "boom"

\* C8: with a `resource` input supplied by a parent and a statically
\* configured resource, the component is instantiated with the supplied one.
C8_RuntimeResourceWins ==
    \A i \in Constructs :
        LET n == trace[i].node
        IN  (/\ trace[i].inv >= 1
             /\ "resource" \in DOMAIN trace[CallEvent(n, trace[i].inv)].kwargs
             /\ schema[n].resource # NoneVal) =>
                /\ trace[i].component.resource
                      = trace[CallEvent(n, trace[i].inv)].kwargs["resource"]
                /\ trace[i].component.resource
                      = outputs[schema[n].needs["resource"]]

\* A node with a stored resource was instantiated in a call in which its
\* parent supplied another resource.
C8_Witness ==
    \E i \in Constructs :
        /\ trace[i].inv >= 1
        /\ trace[i].ok
        /\ "resource" \in DOMAIN schema[trace[i].node].needs
        /\ schema[trace[i].node].resource = Resource(StoredName(trace[i].node))
        /\ trace[i].component.resource # schema[trace[i].node].resource

\* Whether a `resource` input reached the constructor call at index i: never
\* at construction, in a call when the projected inputs hold one.
ResourceSupplied(i) ==
    /\ trace[i].inv >= 1
    /\ "resource" \in DOMAIN trace[CallEvent(trace[i].node, trace[i].inv)].kwargs

\* C9: without a `resource` input the component is instantiated with the
\* node's static resource if it has one, else with Resource(node name).
C9_StaticThenFresh ==
    \A i \in Constructs :
        LET n == trace[i].node
        IN  ~ResourceSupplied(i) =>
                trace[i].component.resource
                    = IF schema[n].resource # NoneVal THEN schema[n].resource
                      ELSE Resource(n)

\* A lazy node without a `resource` input was instantiated in a call with
\* its stored resource, or, in another run, with a fresh one of its name.
C9_Witness ==
    \E i \in Constructs :
        /\ trace[i].inv >= 1
        /\ trace[i].ok
        /\ ~ResourceSupplied(i)
        /\ DOMAIN schema[trace[i].node].needs # {}
        /\ trace[i].component.resource = Resource(StoredName(trace[i].node))

\* The inputs the constructor call at index i was handed: its extra keyword
\* arguments and, when a `resource` input was supplied, its resource.
ConstructorInputs(i) ==
    LET c == trace[i].component
    IN  [k \in (DOMAIN c.kwargs)
                  \cup (IF ResourceSupplied(i) THEN {"resource"} ELSE {}) |->
            IF k = "resource" THEN c.resource ELSE c.kwargs[k]]

Befores == {i \in DOMAIN trace : trace[i].ev = "before"}

Afters == {i \in DOMAIN trace : trace[i].ev = "after"}

\* The events at i and j belong to the same invocation of the same node.
SameInvocation(i, j) ==
    trace[i].node = trace[j].node /\ trace[i].inv = trace[j].inv

\* The exception in flight is a component error that names node n and has
\* the exception e as its cause.
RaisedFrom(n, e) ==
    /\ pc.at = "raised"
    /\ raised.tag = "GraphComponentException"
    /\ raised.node = n
    /\ raised.cause = e

\* C11: for every entry k -> p of a node's needs the projected inputs hold
\* under k the value received from p, which is what p returned, and nothing
\* else; the function of an eager node is called with them; and with k
\* renamed the same value of the same parent is passed under the new name.
C11_Projection ==
    \A i \in Calls :
        trace[i].ok =>
            LET n == trace[i].node
                needs == schema[n].needs
                received == trace[i].received
                kwargs == trace[i].kwargs
            IN  /\ DOMAIN kwargs = DOMAIN needs
                /\ \A k \in DOMAIN needs :
                     /\ needs[k] \in DOMAIN received
                     /\ kwargs[k] = received[needs[k]]
                     /\ \E r \in Returns :
                          /\ r < i
                          /\ trace[r].node = needs[k]
                          /\ trace[r].output = kwargs[k]
                /\ \A f \in FnCalls :
                     (SameInvocation(i, f) /\ schema[n].eager) =>
                         trace[f].kwargs = kwargs
                /\ \A k \in DOMAIN needs :
                     \A k2 \in Range(InputOrder) \ DOMAIN needs :
                         LET renamed ==
                                 [j \in ((DOMAIN needs) \ {k}) \cup {k2} |->
                                     IF j = k2 THEN needs[k] ELSE needs[j]]
                             projected == ProjectInputs(renamed, received)
                         IN  /\ projected[k2] = kwargs[k]
                             /\ \A j \in (DOMAIN needs) \ {k} :
                                  projected[j] = kwargs[j]

\* The function of an eager node with two inputs from two parents was
\* called, and a node received the output of one parent under two names.
C11_Witness ==
    /\ \E f \in FnCalls :
         /\ schema[trace[f].node].eager
         /\ DOMAIN trace[f].kwargs = {"x", "y"}
         /\ trace[f].kwargs["x"] # trace[f].kwargs["y"]
    /\ \E i \in Calls :
         /\ trace[i].ok
         /\ DOMAIN trace[i].kwargs = {"x", "resource"}
         /\ trace[i].kwargs["x"] = trace[i].kwargs["resource"]

\* C12: when a before-hook raises e, the invocation raises a component error
\* that names the node and has e as its cause, and nothing more happens in
\* that invocation: no later before-hook, no instantiation, no call of the
\* designated function, no after-hook, no return.
C12_BeforeHookAborts ==
    \A i \in Befores :
        ~trace[i].ok =>
            /\ \A j \in DOMAIN trace : (j > i) => ~SameInvocation(i, j)
            /\ \A j \in Constructs \cup FnCalls \cup Afters \cup Returns :
                 ~SameInvocation(i, j)
            /\ (i = Len(trace)) => RaisedFrom(trace[i].node, trace[i].exc)

\* The first before-hook of a lazy node has raised in the node's second
\* invocation, the first one having instantiated the component.
C12_Witness ==
    \E i \in Befores :
        /\ ~trace[i].ok
        /\ i = Len(trace)
        /\ trace[i].hook = Hooks[1]
        /\ trace[i].inv = 2
        /\ ~schema[trace[i].node].eager
        /\ ConstructCount(trace[i].node) = 1

\* C13: in an invocation that returns, on_after_node of every hook is called
\* exactly once, with what on_before_node of the same hook returned in this
\* invocation and with the output of the designated function; no after-hook
\* is handed what the before-hook of another hook returned.
C13_HookPairing ==
    /\ \A r \in Returns :
         \A h \in Range(Hooks) :
             /\ Cardinality({a \in Afters :
                                SameInvocation(a, r) /\ trace[a].hook = h}) = 1
             /\ \A a \in Afters :
                  (SameInvocation(a, r) /\ trace[a].hook = h) =>
                      /\ trace[a].ok
                      /\ trace[a].output = trace[r].output
                      /\ \E f \in FnCalls :
                           /\ SameInvocation(f, r)
                           /\ trace[f].ok
                           /\ trace[f].output = trace[a].output
                      /\ \E b \in Befores :
                           /\ b < a
                           /\ SameInvocation(b, a)
                           /\ trace[b].hook = h
                           /\ trace[b].ok
                           /\ trace[b].returned = trace[a].input_hook_data
    /\ \A a \in Afters :
         \A b \in Befores :
             (trace[b].ok /\ trace[b].returned = trace[a].input_hook_data) =>
                 /\ trace[b].hook = trace[a].hook
                 /\ SameInvocation(a, b)

\* Two nodes have returned, each after the after-hooks of all hooks.
C13_Witness ==
    \E r, q \in Returns :
        /\ trace[r].node # trace[q].node
        /\ \A h \in Range(Hooks) :
             \E a \in Afters : SameInvocation(a, q) /\ trace[a].hook = h

\* C14: when an after-hook raises e, the invocation raises a component error
\* that names the node and has e as its cause; the after-hooks after it are
\* not run and the pair of the node is not returned: the caller holds no
\* output of the node.
C14_AfterHookAborts ==
    \A i \in Afters :
        ~trace[i].ok =>
            /\ i = Len(trace)
            /\ RaisedFrom(trace[i].node, trace[i].exc)
            /\ \A j \in Afters :
                 SameInvocation(i, j) => j <= i
            /\ \A r \in Returns : ~SameInvocation(i, r)
            /\ trace[i].node \notin DOMAIN outputs
            /\ result = NoneVal

\* The first after-hook of a node has raised, after the function returned.
C14_Witness ==
    \E i \in Afters :
        /\ ~trace[i].ok
        /\ trace[i].hook = Hooks[1]
        /\ trace[i - 1].ev = "fn"
        /\ trace[i - 1].ok
        /\ DOMAIN outputs # {}

\* C15: when the constructor raises e, a component error that names the node
\* and has e as its cause is raised, and the constructor is not called again
\* for it: at construction for an eager node, whose GraphNode then does not
\* come to exist; in the invocation for a lazy node, in which neither the
\* designated function nor an after-hook runs and which does not return.
C15_ConstructorErrorWrapped ==
    \A i \in Constructs :
        ~trace[i].ok =>
            LET n == trace[i].node
            IN  /\ \A j \in Constructs : SameInvocation(i, j) => j = i
                /\ \A j \in FnCalls \cup Afters \cup Returns :
                     ~SameInvocation(i, j)
                /\ \A j \in DOMAIN trace : (j > i) => ~SameInvocation(i, j)
                /\ (i = Len(trace)) => RaisedFrom(n, trace[i].exc)
                /\ IF schema[n].eager
                   THEN /\ trace[i].inv = 0
                        /\ n \notin DOMAIN gnodes
                        /\ i = Len(trace)
                   ELSE /\ trace[i].inv >= 1
                        /\ trace[i - 1].ev = "before"
                        /\ SameInvocation(i, i - 1)

\* The constructor of a lazy node has raised in the node's second
\* invocation; the node still holds the component of the first.
C15_Witness ==
    \E i \in Constructs :
        /\ ~trace[i].ok
        /\ i = Len(trace)
        /\ trace[i].inv = 2
        /\ ~schema[trace[i].node].eager
        /\ gnodes[trace[i].node].component # NoneVal
        /\ \E j \in Constructs :
             /\ j < i
             /\ trace[j].ok
             /\ gnodes[trace[i].node].component = trace[j].component

\* The nodes of a serialized mapping, in its order, whose `uses` is a path
\* that cannot be imported.
UnimportableNodes(ser) ==
    SelectSeq(KeysIn(NodeOrder, ser),
              LAMBDA n : /\ ser[n].uses.tag = "path"
                         /\ class_from_module_path(ser[n].uses.path).tag
                               = "ImportError")

\* C16: from_dict of a serialized schema in which the path of some node
\* cannot be imported raises a GraphSchemaException whose message holds that
\* path (of the first such node), and returns no schema.
C16_BadPathRaises ==
    (schOp = "from_dict" /\ UnimportableNodes(serialized) # <<>>) =>
        /\ loaded.tag = "GraphSchemaException"
        /\ loaded.path = serialized[Head(UnimportableNodes(serialized))].uses.path
        /\ loaded.path \in BadPaths
        /\ "nodes" \notin DOMAIN loaded

\* from_dict has raised for a mapping whose first node resolves, whose third
\* and fourth nodes do not, each with a path of its own.
C16_Witness ==
    /\ schOp = "from_dict"
    /\ loaded.tag = "GraphSchemaException"
    /\ serialized["T"].uses.tag = "class"
    /\ UnimportableNodes(serialized) = <<"B", "C">>
    /\ serialized["B"].uses.path # serialized["C"].uses.path

\* C17: minimal_graph_schema() of the schema minimal_graph_schema() returned
\* has the nodes of that schema, each with the same SchemaNode value.
C17_MinimalIdempotent ==
    schOp = "minimal_twice" =>
        /\ DOMAIN minimal = DOMAIN minimal_graph_schema(schema)
        /\ \A n \in DOMAIN minimal :
             /\ n \in DOMAIN schema
             /\ minimal[n] = schema[n]
        /\ minimal = minimal_graph_schema(schema)

\* A schema was pruned twice whose first pruning dropped a node and kept
\* three, a target that needs two nodes among them.
C17_Witness ==
    /\ schOp = "minimal_twice"
    /\ Cardinality(DOMAIN minimal_graph_schema(schema)) = 3
    /\ \E t \in Targets : Cardinality(Parents(schema, t)) = 2

\* The target at hand of frame i of the walk.
WalkTargetAt(i) == Head(stack[i].targets)

C19_OnceAfterParents ==
    /\ \A n \in DOMAIN schema :
         /\ CallCount(n) <= 1
         /\ Cardinality({f \in FnCalls : trace[f].node = n}) <= 1
    /\ pc.at = "done" =>
         \A n \in DOMAIN schema :
             /\ CallCount(n) = 1
             /\ Cardinality({f \in FnCalls : trace[f].node = n}) = 1
    /\ \A i \in Calls :
         \A p \in Parents(schema, trace[i].node) :
             /\ p \in DOMAIN outputs
             /\ \E r \in Returns :
                  /\ r < i
                  /\ trace[r].node = p
                  /\ trace[r].output = outputs[p]

\* The run of a diamond has returned, B having run before A.
C19_Witness ==
    /\ pc.at = "done"
    /\ \E t, a, b, c \in DOMAIN schema : IsDiamond(t, a, b, c)
    /\ \E i, j \in Calls :
         i < j /\ trace[i].node = "B" /\ trace[j].node = "A"

\* The calls of the trace that raised.
Failed == {i \in DOMAIN trace : trace[i].ev # "return" /\ ~trace[i].ok}

\* C20: a run returns the outputs of all is_target nodes, keyed by node
\* name, each the output its node returned, no node having raised; or it
\* ends with the first error a node raised, and returns nothing.  There is
\* no result that holds the outputs of some targets only.
C20_AllOrError ==
    /\ \A r \in Returns :
         /\ trace[r].node \in DOMAIN outputs
         /\ outputs[trace[r].node] = trace[r].output
    /\ result # NoneVal =>
         /\ pc.at = "done"
         /\ raised = NoneVal
         /\ Failed = {}
         /\ DOMAIN result = Targets
         /\ \A n \in Targets :
              \E r \in Returns :
                  trace[r].node = n /\ trace[r].output = result[n]
    /\ pc.at # "done" => result = NoneVal
    /\ Failed # {} =>
         /\ Failed = {Len(trace)}
         /\ RaisedFrom(trace[Len(trace)].node, trace[Len(trace)].exc)
         /\ result = NoneVal
    /\ pc.at = "raised" => Failed # {}

\* A run with two targets has returned the outputs of both.
C20_Witness ==
    /\ result # NoneVal
    /\ Cardinality(DOMAIN result) = 2
    /\ \A n \in DOMAIN result : result[n] = Output(n, 1)

\* What node n receives under its input names in a run, whatever the order
\* in which the nodes run: the output of the one invocation of each parent.
ExpectedInputs(n) ==
    [k \in DOMAIN schema[n].needs |-> Output(schema[n].needs[k], 1)]

\* The component of node n in a run, whatever the order.
ExpectedComponent(n) ==
    NewComponent(GraphNodeInit(n, schema[n]),
                 IF schema[n].eager THEN EmptyDict
                 ELSE minimal_kwargs(ExpectedInputs(n),
                                     ConstructorParams(
                                         schema[n].uses,
                                         schema[n].constructor_name)),
                 1)

\* C21: in every order in which the runner starts, interleaves and finishes
\* sibling nodes, a node receives under each input name the output of the
\* parent of that name in its needs, its function is called on the same
\* component with the same inputs, and the run returns the same outputs of
\* the targets: all are functions of the schema alone.
C21_OrderIndependent ==
    /\ \A i \in Calls :
         /\ trace[i].ok
         /\ trace[i].kwargs = ExpectedInputs(trace[i].node)
         /\ trace[i].received
               = [p \in Parents(schema, trace[i].node) |-> Output(p, 1)]
    /\ \A f \in FnCalls :
         LET n == trace[f].node
             c == ExpectedComponent(n)
         IN  /\ trace[f].component = c
             /\ trace[f].kwargs
                   = [k \in (DOMAIN ExpectedInputs(n))
                               \ (IF schema[n].eager THEN {}
                                  ELSE (DOMAIN c.kwargs) \cup {"resource"}) |->
                        ExpectedInputs(n)[k]]
             /\ trace[f].ok => trace[f].output = Output(n, 1)
    /\ result # NoneVal => result = [n \in Targets |-> Output(n, 1)]

\* A run has returned in which the invocations of A and B interleaved and
\* B, the second input of T, returned before A, the first.
C21_Witness ==
    /\ result # NoneVal
    /\ \E i, j, k \in DOMAIN trace :
         /\ i < j /\ j < k
         /\ trace[i].node = "A" /\ trace[j].node = "B" /\ trace[k].node = "A"
    /\ \E i, j \in Returns :
         i < j /\ trace[i].node = "B" /\ trace[j].node = "A"

\* C22: an invocation whose inputs lack the pair of a parent named in the
\* node's needs raises the KeyError of a missing parent: no value stands in
\* for the missing one, and no hook, no constructor and no function is
\* called in that invocation, which does not return.
C22_MissingParent ==
    \A i \in Calls :
        LET n == trace[i].node
            missing == {p \in Parents(schema, n) :
                           p \notin DOMAIN trace[i].received}
        IN  missing # {} =>
                /\ ~trace[i].ok
                /\ trace[i].exc.type = "KeyError"
                /\ trace[i].exc.msg \in missing
                /\ \A j \in DOMAIN trace : j # i => ~SameInvocation(i, j)
                /\ \A k \in DOMAIN schema[n].needs :
                     schema[n].needs[k] \in missing =>
                         k \notin DOMAIN trace[i].kwargs
                /\ (i = Len(trace)) =>
                     /\ pc.at = "raised"
                     /\ raised = trace[i].exc
                     /\ frame = NoneVal

\* A node with two parents was invoked with the pair of the first only,
\* after an invocation with both that returned.
C22_Witness ==
    \E i \in Calls :
        /\ ~trace[i].ok
        /\ i = Len(trace)
        /\ trace[i].inv = 2
        /\ DOMAIN schema[trace[i].node].needs = {"x", "y"}
        /\ DOMAIN trace[i].kwargs = {"x"}
        /\ \E r \in Returns : trace[r].node = trace[i].node

\* C23: the config the constructor and every hook of a node are handed has
\* the keys of the component's default config and of the node's config, with
\* the node's value for a key of the node's config and the default value for
\* any other.
C23_ConfigMerge ==
    \A i \in Constructs \cup Befores \cup Afters :
        LET n == trace[i].node
            node_config == schema[n].config
            defaults == get_default_config(schema[n].uses)
            config == IF trace[i].ev = "construct"
                      THEN trace[i].component.config
                      ELSE trace[i].config
        IN  /\ DOMAIN config = (DOMAIN defaults) \cup (DOMAIN node_config)
            /\ \A k \in DOMAIN config :
                 config[k] = IF k \in DOMAIN node_config THEN node_config[k]
                             ELSE defaults[k]

\* The constructor and an after-hook of a node were handed a config with an
\* overridden default, a default that was kept and a key of the node only.
C23_Witness ==
    \E i \in Constructs, a \in Afters :
        /\ trace[i].node = trace[a].node
        /\ trace[i].ok
        /\ get_default_config(schema[trace[i].node].uses)
              = [epochs |-> 1, flag |-> 0]
        /\ trace[i].component.config = [epochs |-> 5, flag |-> 0, extra |-> 7]
        /\ trace[a].config = trace[i].component.config

\* C24: no step of a run (construction of a GraphNode, instantiation, hook,
\* invocation) changes the ExecutionContext of the run: its graph_schema,
\* model_id, should_add_diagnostic_data and is_finetuning stay what they
\* were; every GraphNode holds that context and every constructor and hook
\* is handed it.
C24_ContextUnchanged ==
    /\ [][/\ context' = context
          /\ context'.graph_schema = context.graph_schema
          /\ context'.model_id = context.model_id
          /\ context'.should_add_diagnostic_data
                = context.should_add_diagnostic_data
          /\ context'.is_finetuning = context.is_finetuning]_vars
    /\ [](/\ context \in Contexts(schema)
          /\ \A n \in DOMAIN gnodes : gnodes[n].execution_context = context
          /\ \A i \in Constructs :
               trace[i].component.execution_context = context
          /\ \A i \in Befores \cup Afters :
               trace[i].execution_context = context)

\* In the fine-tuning of a model, an eager node and a lazy node were
\* instantiated and the hooks of two nodes ran.
C24_Witness ==
    /\ context.is_finetuning
    /\ context.model_id # NoneVal
    /\ \E i, j \in Constructs :
         /\ trace[i].inv = 0
         /\ trace[j].inv = 1
         /\ trace[i].component.execution_context = context
         /\ trace[j].component.execution_context = context
    /\ \E a, b \in Afters : trace[a].node # trace[b].node

\* C25: minimal_graph_schema() leaves the schema it is called on as it was,
\* with all its nodes, and every node of the schema it returns has the
\* field values of the node of that name in the original.
C25_MinimalLeavesSchema ==
    [][(schOp = "new" /\ schOp' = "minimal") =>
          /\ schema' = schema
          /\ DOMAIN schema' = Names
          /\ DOMAIN minimal' \subseteq DOMAIN schema'
          /\ \A n \in DOMAIN minimal' : minimal'[n] = schema'[n]]_vars

\* A schema of four nodes was pruned to two and still has its four nodes.
C25_Witness ==
    /\ schOp = "minimal"
    /\ Cardinality(DOMAIN minimal) = 2
    /\ Cardinality(DOMAIN schema) = 4
    /\ \E n \in DOMAIN schema : n \notin ReachableFrom(schema, Targets)

\* The fields as_dict copies as they are.
CopiedFields == SchemaNodeFields \ {"uses", "resource"}

\* C26 (as stated): the map as_dict returns for a node holds `uses` as the
\* dotted path of the class, the copied fields, `resource` flattened when the
\* node has one, and no key `resource` when the node has none.
C26_ResourceOmitted ==
    schOp = "as_dict" =>
        \A n \in DOMAIN schema :
            /\ n \in DOMAIN serialized
            /\ serialized[n].uses.path
                   = schema[n].uses.module \o <<schema[n].uses.name>>
            /\ \A f \in CopiedFields : serialized[n][f] = schema[n][f]
            /\ IF schema[n].resource = NoneVal
               THEN "resource" \notin DOMAIN serialized[n]
               ELSE serialized[n].resource
                        = [tag |-> "dict", name |-> schema[n].resource.name]

\* C26 (amended): as_dict returns a map with the node names of the schema;
\* the map of a node holds exactly the SchemaNode fields, `uses` as the dotted
\* path module + class name, `resource` as the dict of the fields of the
\* Resource when the node has one and as None when it has none, every other
\* field as in the node; the call leaves the schema as it was.
C26_AsDictContents ==
    /\ [](schOp = "as_dict" =>
            /\ DOMAIN serialized = DOMAIN schema
            /\ \A n \in DOMAIN schema :
                 /\ DOMAIN serialized[n] = SchemaNodeFields
                 /\ serialized[n].uses
                        = [tag |-> "path",
                           path |-> schema[n].uses.module
                                        \o <<schema[n].uses.name>>]
                 /\ \A f \in CopiedFields : serialized[n][f] = schema[n][f]
                 /\ "resource" \in DOMAIN serialized[n]
                 /\ serialized[n].resource
                        = IF schema[n].resource = NoneVal THEN NoneVal
                          ELSE [tag |-> "dict",
                                name |-> schema[n].resource.name])
    /\ [][(schOp = "new" /\ schOp' = "as_dict") => schema' = schema]_vars

\* as_dict has returned for a schema with a node that has a resource and a
\* node that has none.
C26_Witness ==
    /\ schOp = "as_dict"
    /\ \E n, m \in DOMAIN schema :
         /\ schema[n].resource # NoneVal
         /\ serialized[n].resource.tag = "dict"
         /\ schema[m].resource = NoneVal
         /\ serialized[m].resource = NoneVal

\* The nodes of a serialized mapping with a key that is no SchemaNode field
\* or without a required field.
BadKeysNodes(ser) ==
    {n \in DOMAIN ser : \/ ~(DOMAIN ser[n] \subseteq SchemaNodeFields)
                        \/ ~(RequiredFields \subseteq DOMAIN ser[n])}

\* C27: from_dict of a serialized schema in which some node holds a key that
\* is no SchemaNode field, or lacks one of needs, uses, constructor_name, fn,
\* config, ends in an error (a KeyError or a TypeError) and returns no
\* schema.
C27_BadKeysRaise ==
    (schOp = "from_dict" /\ BadKeysNodes(serialized) # {}) =>
        /\ loaded.tag = "Exception"
        /\ loaded.type \in {"KeyError", "TypeError"}
        /\ "nodes" \notin DOMAIN loaded
        /\ ("uses" \notin DOMAIN serialized["T"]) => loaded = KeyError("uses")

\* from_dict has raised the TypeError of SchemaNode(**serialized_node) for a
\* mapping whose first node was loaded, with a node that holds an unknown key
\* and a node without `config`.
C27_Witness ==
    /\ schOp = "from_dict"
    /\ loaded = TypeError
    /\ serialized["T"].uses.tag = "class"
    /\ "T" \notin BadKeysNodes(serialized)
    /\ \E n \in DOMAIN serialized :
         ~(DOMAIN serialized[n] \subseteq SchemaNodeFields)
    /\ \E n \in DOMAIN serialized : "config" \notin DOMAIN serialized[n]

\* The keys of the user config validated that its component's defaults lack,
\* `name` aside.
UnknownConfigKeys ==
    ((DOMAIN direct.component_config) \ {"name"}) \ (DOMAIN direct.defaults)

\* C28: validate_component_keys never raises, emits no warning for `name`
\* nor for a key of the component's defaults and, once it has returned, has
\* emitted exactly one warning for each other key of the user config: none
\* when all keys are in the defaults.
C28_OneWarningPerUnknownKey ==
    direct.fn = "validate_component_keys" =>
        /\ direct.raised = NoneVal
        /\ \A i \in 1..Len(direct.warnings) :
             /\ direct.warnings[i].key \in UnknownConfigKeys
             /\ \A j \in 1..Len(direct.warnings) :
                  direct.warnings[j].key = direct.warnings[i].key => j = i
        /\ direct.pc = "returned" =>
             /\ Len(direct.warnings) = Cardinality(UnknownConfigKeys)
             /\ \A k \in UnknownConfigKeys :
                  \E i \in 1..Len(direct.warnings) : direct.warnings[i].key = k
             /\ (DOMAIN direct.component_config \subseteq DOMAIN direct.defaults)
                    => direct.warnings = <<>>

\* The validation has returned for a config with `name`, a key of the
\* defaults and two keys the defaults lack: two warnings.
C28_Witness ==
    /\ direct.fn = "validate_component_keys"
    /\ direct.pc = "returned"
    /\ DOMAIN direct.component_config = UserConfigKeys
    /\ direct.defaults = [case_sensitive |-> TRUE]
    /\ Len(direct.warnings) = 2

\* C29: the load of a class that does not override it calls create with the
\* config, model_storage, resource and execution_context it was given, and
\* returns the instance create returns for these four, or raises what
\* create raises, whatever other keyword arguments it was given.
C29_LoadDelegates ==
    (direct.fn = "load" /\ ~OverridesLoad(direct.cls)) =>
        /\ direct.pc # "start" => direct.create_args = direct.args
        /\ direct.pc = "returned" =>
               direct.returned = create(direct.cls, direct.args.config,
                                        direct.args.model_storage,
                                        direct.args.resource,
                                        direct.args.execution_context)
        /\ direct.pc = "raised" => direct.raised \in Errors

\* The inherited load has returned an instance for a call with a config and
\* two more keyword arguments.
C29_Witness ==
    /\ direct.fn = "load"
    /\ direct.cls = PolicyCls
    /\ direct.pc = "returned"
    /\ direct.args.config = [epochs |-> 5]
    /\ DOMAIN direct.kwargs = {"x", "y"}
    /\ direct.returned.constructor = "create"

\* C30: the component of an eager node is built once, with the node and
\* without any input: with the resource of the schema node or, when there is
\* none, a Resource named after the node.  Every invocation hands the run
\* function that component and all the inputs projected for the call, one
\* named `resource` included.
C30_EagerGetsNoParentResource ==
    /\ \A i \in Constructs :
         schema[trace[i].node].eager =>
             /\ trace[i].inv = 0
             /\ trace[i].given = EmptyDict
             /\ trace[i].ok =>
                  /\ trace[i].component.kwargs = EmptyDict
                  /\ trace[i].component.resource
                         = IF schema[trace[i].node].resource # NoneVal
                           THEN schema[trace[i].node].resource
                           ELSE Resource(trace[i].node)
             /\ \A j \in Constructs : trace[j].node = trace[i].node => j = i
    /\ \A i \in FnCalls :
         schema[trace[i].node].eager =>
             LET call == trace[CallEvent(trace[i].node, trace[i].inv)]
             IN  /\ trace[i].kwargs = call.kwargs
                 /\ DOMAIN trace[i].kwargs = DOMAIN schema[trace[i].node].needs
                 /\ \E c \in Constructs :
                      /\ trace[c].node = trace[i].node
                      /\ trace[c].inv = 0
                      /\ trace[i].component = trace[c].component

\* An eager node with an input named `resource` and no stored resource has
\* been invoked twice, and its run function got the parent's value as
\* `resource` while the component holds the Resource named after the node.
C30_Witness ==
    \E i, j \in FnCalls :
        /\ gnodes[trace[i].node].eager
        /\ trace[j].node = trace[i].node
        /\ trace[i].inv = 1
        /\ trace[j].inv = 2
        /\ schema[trace[i].node].resource = NoneVal
        /\ "resource" \in DOMAIN trace[j].kwargs
        /\ trace[j].kwargs["resource"] # trace[j].component.resource
        /\ trace[j].component.resource = Resource(trace[j].node)

\* The events of invocation inv of node n that are calls of the kind ev.
EventsOf(ev, n, inv) ==
    {i \in DOMAIN trace :
        trace[i].ev = ev /\ trace[i].node = n /\ trace[i].inv = inv}

\* C31: in every invocation, an after-hook is called only after the
\* designated function has returned in that invocation (never when it
\* raised), and the on_after_node calls are at most as many as the
\* on_before_node calls that returned.
C31_AfterHooksFollowFn ==
    \A c \in Calls :
        LET n == trace[c].node
            inv == trace[c].inv
            afters == EventsOf("after", n, inv)
            fns == EventsOf("fn", n, inv)
            returned == {b \in EventsOf("before", n, inv) : trace[b].ok}
        IN  /\ (\E f \in fns : ~trace[f].ok) => afters = {}
            /\ Cardinality(afters) <= Cardinality(returned)
            /\ \A a \in afters :
                 \E f \in fns : trace[f].ok /\ f < a
            /\ \A a \in afters : \A b \in returned : b < a

\* A node's function has raised in its second invocation, after all its
\* before-hooks returned; in the first, every after-hook was called.
C31_Witness ==
    \E f \in FnCalls :
        /\ ~trace[f].ok
        /\ trace[f].inv = 2
        /\ Cardinality({b \in EventsOf("before", trace[f].node, 2) :
                           trace[b].ok}) = NumHooks
        /\ Cardinality(EventsOf("after", trace[f].node, 1)) = NumHooks
        /\ EventsOf("after", trace[f].node, 2) = {}
        /\ pc.at = "raised"

\* C32: a call of from_dict leaves the serialized mapping passed to it as
\* it was, so that the mapping can be loaded again.
C32_FromDictLeavesMapping ==
    [][(schOp = "as_dict" /\ schOp' = "from_dict") =>
          serialized' = serialized]_vars

\* Every needs value of the schema names a node of the schema.
NoDanglingNeeds(nodes) ==
    \A n \in DOMAIN nodes :
        \A k \in DOMAIN nodes[n].needs : nodes[n].needs[k] \in DOMAIN nodes

\* C33: the result of minimal_graph_schema() on a schema without dangling
\* needs has none either, every needs value of a retained node names a
\* retained node, and it retains every is_target node of the original.
C33_MinimalClosed ==
    (schOp = "minimal" /\ NoDanglingNeeds(schema)) =>
        /\ NoDanglingNeeds(minimal)
        /\ \A n \in DOMAIN schema : schema[n].is_target => n \in DOMAIN minimal
        /\ \A n \in DOMAIN minimal : minimal[n].needs = schema[n].needs

\* A schema was pruned to a target with two needs and its two parents, one
\* of which is a target too; the fourth node was dropped.
C33_Witness ==
    /\ schOp = "minimal"
    /\ Cardinality(DOMAIN minimal) = 3
    /\ Cardinality(Targets) = 2
    /\ \E t \in Targets :
         /\ DOMAIN schema[t].needs = {"x", "y"}
         /\ schema[t].needs["x"] # schema[t].needs["y"]
         /\ schema[t].needs["y"] \in Targets
         /\ schema[t].needs["x"] \in DOMAIN minimal

\* The constructor calls of nodes without a static resource to which no
\* `resource` input was supplied.
FreshConstructs ==
    {i \in Constructs :
        schema[trace[i].node].resource = NoneVal /\ ~ResourceSupplied(i)}

\* C34: a node instantiated without a static and without a supplied resource
\* gets a resource named after the node, so that two such nodes of one
\* schema get resources of different names.
C34_FreshResourcesDiffer ==
    \A i \in FreshConstructs :
        /\ trace[i].component.resource.name = trace[i].node
        /\ \A j \in FreshConstructs :
             trace[j].node # trace[i].node =>
                 trace[j].component.resource.name
                     # trace[i].component.resource.name

\* Three nodes of one schema were instantiated with fresh resources, two of
\* them of classes with the same __name__, two of the same class.
C34_Witness ==
    \E i, j, k \in FreshConstructs :
        /\ trace[i].ok /\ trace[j].ok /\ trace[k].ok
        /\ Cardinality({trace[i].node, trace[j].node, trace[k].node}) = 3
        /\ trace[i].component.cls # trace[j].component.cls
        /\ trace[i].component.cls.name = trace[j].component.cls.name
        /\ trace[k].component.cls = TokenizerCls

\* C35: with use_cache set, a component that create_component built under a
\* cache key that is not None is what every later create_component call
\* with the same cache key returns, and no such call builds a component;
\* the cache has no key None and holds no component whose cache key is None.
C35_CachedIsReused ==
    (direct.fn = "ComponentBuilder" /\ direct.use_cache) =>
        /\ \A i, j \in DOMAIN direct.log :
             (/\ i < j
              /\ direct.log[i].op = "create_component"
              /\ direct.log[i].built
              /\ direct.log[i].cache_key # NoneVal
              /\ direct.log[j].op = "create_component"
              /\ direct.log[j].cache_key = direct.log[i].cache_key) =>
                 /\ direct.log[j].ok
                 /\ ~direct.log[j].built
                 /\ direct.log[j].returned = direct.log[i].returned
        /\ NoneVal \notin DOMAIN direct.component_cache
        /\ \A i \in DOMAIN direct.log :
             direct.log[i].cache_key = NoneVal =>
                 \A k \in DOMAIN direct.component_cache :
                     direct.component_cache[k] # direct.log[i].returned

\* A component built by create_component was returned again for another
\* config with the same cache key, after a component without a cache key
\* was built.
C35_Witness ==
    /\ direct.fn = "ComponentBuilder"
    /\ direct.use_cache
    /\ Len(direct.log) = 3
    /\ direct.log[1].op = "create_component"
    /\ direct.log[1].built
    /\ direct.log[1].cache_key # NoneVal
    /\ direct.log[2].cache_key = NoneVal
    /\ direct.log[2].built
    /\ direct.log[3].op = "create_component"
    /\ direct.log[3].config # direct.log[1].config
    /\ direct.log[3].returned = direct.log[1].returned

\* C36: with use_cache unset, component_cache is empty after any sequence
\* of create_component and load_component calls, and every call that
\* returned found nothing cached and returned a newly built component.
C36_NoCacheNoReuse ==
    (direct.fn = "ComponentBuilder" /\ ~direct.use_cache) =>
        /\ direct.component_cache = EmptyDict
        /\ \A i \in DOMAIN direct.log :
             /\ direct.log[i].cached = NoneVal
             /\ direct.log[i].ok => direct.log[i].built
             /\ \A j \in DOMAIN direct.log :
                  (direct.log[i].ok /\ direct.log[j].ok /\ i # j) =>
                      direct.log[i].returned # direct.log[j].returned

\* Without the cache, a config with a cache key was created, loaded and
\* created again: three components.
C36_Witness ==
    /\ direct.fn = "ComponentBuilder"
    /\ ~direct.use_cache
    /\ Len(direct.log) = 3
    /\ direct.built = 3
    /\ direct.log[1].op = "create_component"
    /\ direct.log[2].op = "load_component"
    /\ direct.log[3].op = "create_component"
    /\ \A i \in 1..3 : direct.log[i].cache_key # NoneVal
    /\ direct.log[1].cache_key = direct.log[3].cache_key

\* The keywords of a map that occur as whole words inside a keyword of
\* another intent of the map.
AmbiguousKeywords(map, case_sensitive) ==
    {map[i].keyword : i \in
        {i \in 1..Len(map) :
            \E j \in 1..Len(map) :
                /\ map[i].intent # map[j].intent
                /\ WholeWordSearch(map[i].keyword, map[j].keyword,
                                   case_sensitive)}}

\* C37: _validate_keyword_map does not raise, and once it has returned the
\* map holds none of the keywords that occurred as whole words inside a
\* keyword of another intent when it was called.
C37_ValidateCompletes ==
    direct.fn = "KeywordIntentClassifier" =>
        /\ direct.raised = NoneVal
        /\ direct.pc = "returned" =>
               AmbiguousKeywords(direct.validated, direct.case_sensitive)
                   \cap MapKeys(direct.intent_keyword_map) = {}

\* The texts that the prior keyword map and the intent examples give two
\* different intents.
ConflictingTexts ==
    {t \in Keywords :
        Cardinality(
            {direct.prior[i].intent :
                i \in {i \in 1..Len(direct.prior) : direct.prior[i].keyword = t}}
            \cup
            {direct.intent_examples[i].intent :
                i \in {i \in 1..Len(direct.intent_examples) :
                          direct.intent_examples[i].text = t}}) >= 2}

\* C38: once train has gone through the examples and removed the
\* duplicates, and when it has returned or raised, intent_keyword_map holds
\* no text that the examples and the prior map give two different intents.
C38_ConflictingTextsRemoved ==
    (direct.fn = "KeywordIntentClassifier" /\ direct.pc # "train") =>
        ConflictingTexts \cap MapKeys(direct.intent_keyword_map) = {}

\* train has returned for a map that gave a text one intent and two
\* examples that gave it the other intent and then the first again; another
\* keyword is left in the map.
C38_Witness ==
    /\ direct.fn = "KeywordIntentClassifier"
    /\ direct.pc = "returned"
    /\ Len(direct.intent_examples) = 2
    /\ \E t \in ConflictingTexts :
         /\ t \in MapKeys(direct.prior)
         /\ direct.intent_examples[1].text = t
         /\ direct.intent_examples[1].intent # MapGet(direct.prior, t)
         /\ direct.intent_examples[2].text = t
         /\ direct.intent_examples[2].intent = MapGet(direct.prior, t)
    /\ direct.intent_keyword_map # <<>>

\* The CRFEntityExtractors of the pipeline validated.
CrfsOfPipeline ==
    {i \in 1..Len(direct.pipeline) :
        direct.pipeline[i].name = "CRFEntityExtractor"}

\* C39: for training data with lookup tables and a pipeline with at least
\* one CRFEntityExtractor, the warning about the missing `pattern` feature
\* has been raised when the function returns if and only if no
\* CRFEntityExtractor of the pipeline lists `pattern` among its features.
C39_PatternWarningIffNone ==
    (/\ direct.fn = "validate_required_components_from_data"
     /\ direct.pc = "returned"
     /\ direct.data.lookup_tables
     /\ CrfsOfPipeline # {}) =>
        (("crf_pattern" \in Range(direct.warnings))
            <=> (\A i \in CrfsOfPipeline : ~HasPattern(direct.pipeline[i])))

====
